---- MODULE Spec2Model ----
(***************************************************************************)
(* Date/timedelta codec and auto date locator of lib/matplotlib/dates.py.  *)
(*                                                                         *)
(* Part 1: the process-wide epoch cell (set_epoch / get_epoch).            *)
(* Part 2: exact naturals in limbs, IEEE-754 binary64 rounding, and the    *)
(*         codec _to_ordinalf / _from_ordinalf on top of them.             *)
(* Part 3: the calendar, relativedelta, rrule and AutoDateLocator.         *)
(***************************************************************************)
EXTENDS Integers, Sequences, FiniteSets, TLC

VARIABLES
    _epoch,      \* dates._epoch: None, or the epoch string (as a timestamp)
    rcEpoch,     \* rcParams['date.epoch'], the configured default
    firstInit,   \* history: the first value _epoch was initialized to
    converted,   \* history: a date was converted since the cell was last empty
    epochRead,   \* history: get_epoch() was called since the cell was last empty
    op,          \* the last call and its outcome
    prev,        \* history: the encoding or formatting call before the last call, if any
    loc,         \* an AutoDateLocator instance, or None before it is built
    formatter,   \* a concise formatter instance, or None before it is built
    rcParams     \* rcParams['date.converter'] and rcParams['date.interval_multiples']

vars == <<_epoch, rcEpoch, firstInit, converted, epochRead, op, prev, loc, formatter,
         rcParams>>

None == [none |-> TRUE]

(***************************************************************************)
(* Exact natural numbers as little-endian sequences of limbs.  numpy's     *)
(* int64 microsecond counts and float64 significands do not fit a machine  *)
(* integer of TLC, so every quantity wider than 31 bits is kept in limbs   *)
(* and all arithmetic on it is exact.                                      *)
(***************************************************************************)
LimbBits == 3 * 5
LimbBase == 2^LimbBits

RECURSIVE BNorm(_)
BNorm(a) ==
    IF a = <<>> THEN a
    ELSE IF a[Len(a)] = 0 THEN BNorm(SubSeq(a, 1, Len(a) - 1)) ELSE a

RECURSIVE BFromNat(_)
BFromNat(n) ==
    IF n = 0 THEN <<>> ELSE <<n % LimbBase>> \o BFromNat(n \div LimbBase)

BHead(a) == IF a = <<>> THEN 0 ELSE Head(a)
BTail(a) == IF a = <<>> THEN <<>> ELSE Tail(a)

RECURSIVE BAddC(_, _, _)
BAddC(a, b, c) ==
    IF a = <<>> /\ b = <<>> THEN (IF c = 0 THEN <<>> ELSE <<c>>)
    ELSE LET s == BHead(a) + BHead(b) + c
         IN  <<s % LimbBase>> \o BAddC(BTail(a), BTail(b), s \div LimbBase)

BAdd(a, b) == BAddC(a, b, 0)

\* a - b - c for a >= b + c
RECURSIVE BSubC(_, _, _)
BSubC(a, b, c) ==
    IF a = <<>> THEN <<>>
    ELSE LET s == BHead(a) - BHead(b) - c
         IN  IF s < 0
             THEN <<s + LimbBase>> \o BSubC(BTail(a), BTail(b), 1)
             ELSE <<s>> \o BSubC(BTail(a), BTail(b), 0)

BSub(a, b) == BNorm(BSubC(a, b, 0))

\* -1, 0, 1 as a < b, a = b, a > b (both normalized)
RECURSIVE BCmpFrom(_, _, _)
BCmpFrom(a, b, i) ==
    IF i = 0 THEN 0
    ELSE IF a[i] < b[i] THEN -1
    ELSE IF a[i] > b[i] THEN 1
    ELSE BCmpFrom(a, b, i - 1)

BCmp(a, b) ==
    IF Len(a) < Len(b) THEN -1
    ELSE IF Len(a) > Len(b) THEN 1
    ELSE BCmpFrom(a, b, Len(a))

\* a * k + c for a small k (k < LimbBase)
RECURSIVE BMulSmallC(_, _, _)
BMulSmallC(a, k, c) ==
    IF a = <<>> THEN BFromNat(c)
    ELSE LET s == Head(a) * k + c
         IN  <<s % LimbBase>> \o BMulSmallC(Tail(a), k, s \div LimbBase)

BMulSmall(a, k) == BNorm(BMulSmallC(a, k, 0))

RECURSIVE BMul(_, _)
BMul(a, b) ==
    IF b = <<>> \/ a = <<>> THEN <<>>
    ELSE LET rest == BMul(a, Tail(b))
         IN  BAdd(BMulSmall(a, Head(b)),
                  IF rest = <<>> THEN <<>> ELSE <<0>> \o rest)

\* quotient and remainder of a by a small d (d < LimbBase)
RECURSIVE BDivRemRaw(_, _)
BDivRemRaw(a, d) ==
    IF a = <<>> THEN [q |-> <<>>, r |-> 0]
    ELSE LET hi  == BDivRemRaw(Tail(a), d)
             cur == hi.r * LimbBase + Head(a)
         IN  [q |-> <<cur \div d>> \o hi.q, r |-> cur % d]

BDivRem(a, d) ==
    LET x == BDivRemRaw(a, d) IN [q |-> BNorm(x.q), r |-> x.r]

RECURSIVE Zeros(_)
Zeros(n) == IF n = 0 THEN <<>> ELSE <<0>> \o Zeros(n - 1)

BShl(a, n) ==
    IF a = <<>> THEN <<>>
    ELSE Zeros(n \div LimbBits) \o BMulSmall(a, 2^(n % LimbBits))

\* floor(a / 2^n)
BShr(a, n) ==
    LET k == n \div LimbBits
    IN  IF k >= Len(a) THEN <<>>
        ELSE BDivRem(SubSeq(a, k + 1, Len(a)), 2^(n % LimbBits)).q

RECURSIVE NatBits(_)
NatBits(n) == IF n = 0 THEN 0 ELSE 1 + NatBits(n \div 2)

BBits(a) == IF a = <<>> THEN 0 ELSE (Len(a) - 1) * LimbBits + NatBits(a[Len(a)])

\* a >> n rounded to nearest, ties to even
BShrRne(a, n) ==
    LET
        BIsOdd(b) == b # <<>> /\ b[1] % 2 = 1
        \* q, or q + 1 when the bits cut off compare (c) above half, or equal it with
        \* q odd
        BRoundCmp(q, c) == IF c > 0 \/ (c = 0 /\ BIsOdd(q)) THEN BAdd(q, <<1>>) ELSE q
        BRoundUp(q) ==
            BRoundCmp(q, BCmp(BSub(a, BShl(q, n)), BShl(<<1>>, n - 1)))
    IN  IF n = 0 THEN a ELSE BRoundUp(BShr(a, n))

\* the value of a short limb sequence as a machine integer
BToNat(a) ==
    IF a = <<>> THEN 0
    ELSE IF Len(a) = 1 THEN a[1]
    ELSE a[1] + LimbBase * a[2]

\* successive division by the small divisors ds; sticky: some remainder was not 0
RECURSIVE BDivChain(_, _)
BDivChain(a, ds) ==
    IF ds = <<>> THEN [q |-> a, sticky |-> FALSE]
    ELSE LET x    == BDivRem(a, Head(ds))
             rest == BDivChain(x.q, Tail(ds))
         IN  [q |-> rest.q, sticky |-> (x.r # 0) \/ rest.sticky]

(***************************************************************************)
(* Signed integers of any width: [s |-> 1 or -1, m |-> magnitude].         *)
(***************************************************************************)
SInt(s, m) == IF m = <<>> THEN [s |-> 1, m |-> <<>>] ELSE [s |-> s, m |-> m]

SFromInt(n) == IF n < 0 THEN SInt(-1, BFromNat(-n)) ELSE SInt(1, BFromNat(n))

SNeg(a) == SInt(-a.s, a.m)

SAdd(a, b) ==
    IF a.s = b.s THEN SInt(a.s, BAdd(a.m, b.m))
    ELSE IF BCmp(a.m, b.m) >= 0 THEN SInt(a.s, BSub(a.m, b.m))
    ELSE SInt(b.s, BSub(b.m, a.m))

SSub(a, b) == SAdd(a, SNeg(b))

SCmp(a, b) ==
    IF a.s # b.s THEN (IF a.s < b.s THEN -1 ELSE 1)
    ELSE IF a.s = 1 THEN BCmp(a.m, b.m) ELSE BCmp(b.m, a.m)

(***************************************************************************)
(* IEEE-754 binary64 (numpy.float64, Python float): s * m * 2^e with m     *)
(* either 0 or a significand of exactly Precision bits, every operation    *)
(* rounded to nearest, ties to even.  The exponent range is not modelled:  *)
(* no value of the codec comes near it.                                    *)
(***************************************************************************)
Precision == 53
GuardBits == 4 * LimbBits

FZero == [s |-> 1, m |-> <<>>, e |-> 0]

\* the float nearest to s * mag * 2^e
FRound(s, mag, e) ==
    LET
        \* a rounded significand q that carried into one bit more is renormalized
        FRoundQ(q, eq) ==
            IF BBits(q) > Precision THEN [s |-> s, m |-> BShr(q, 1), e |-> eq + 1]
            ELSE [s |-> s, m |-> q, e |-> eq]
        FRoundN(n) ==
            IF n = 0 THEN FZero
            ELSE IF n <= Precision
            THEN [s |-> s, m |-> BShl(mag, Precision - n), e |-> e - (Precision - n)]
            ELSE FRoundQ(BShrRne(mag, n - Precision), e + (n - Precision))
    IN  FRoundN(BBits(mag))

FFromSInt(a) == FRound(a.s, a.m, 0)
FFromNat(n) == FRound(1, BFromNat(n), 0)
FNeg(x) == IF x.m = <<>> THEN x ELSE [x EXCEPT !.s = -x.s]

FAdd(x, y) ==
    LET
        FRoundS(r, e) == FRound(r.s, r.m, e)
        FAddAt(emin) ==
            FRoundS(SAdd(SInt(x.s, BShl(x.m, x.e - emin)),
                         SInt(y.s, BShl(y.m, y.e - emin))), emin)
    IN  IF x.m = <<>> THEN y
        ELSE IF y.m = <<>> THEN x
        ELSE FAddAt(IF x.e < y.e THEN x.e ELSE y.e)

FMul(x, y) == FRound(x.s * y.s, BMul(x.m, y.m), x.e + y.e)

FDivBy(x, ds, p2) ==
    LET
        \* x / (product of the small divisors ds * 2^p2), correctly rounded
        FDivSticky(c) ==
            FRound(x.s, BAdd(BShl(c.q, 1), IF c.sticky THEN <<1>> ELSE <<>>),
                   x.e - GuardBits - 1 - p2)
    IN  IF x.m = <<>> THEN FZero
        ELSE FDivSticky(BDivChain(BShl(x.m, GuardBits), ds))

FCmp(x, y) ==
    LET
        \* -1, 0, 1 as x < y, x = y, x > y
        FCmpAbs ==
            IF x.m = <<>> /\ y.m = <<>> THEN 0
            ELSE IF x.m = <<>> THEN -1
            ELSE IF y.m = <<>> THEN 1
            ELSE IF x.e < y.e THEN -1
            ELSE IF x.e > y.e THEN 1
            ELSE BCmp(x.m, y.m)
    IN  IF x.m = <<>> /\ y.m = <<>> THEN 0
        ELSE IF x.m = <<>> THEN -y.s
        ELSE IF y.m = <<>> THEN x.s
        ELSE IF x.s # y.s THEN (IF x.s < y.s THEN -1 ELSE 1)
        ELSE x.s * FCmpAbs

(***************************************************************************)
(* Time values.  A timestamp is [day, sec, us]: the proleptic Gregorian    *)
(* ordinal of its day (0001-01-01 is day 1), the second of the day and the *)
(* microsecond of the second, in UTC.  A timedelta is the same record with *)
(* a signed day count, as datetime.timedelta normalizes it.                *)
(***************************************************************************)
SEC_PER_DAY == 86400
USEC_PER_SEC == 10^6

Stamp(day, sec, us) == [day |-> day, sec |-> sec, us |-> us]

\* a datetime or timedelta value comes before another
Earlier(a, b) ==
    \/ a.day < b.day
    \/ a.day = b.day /\ a.sec < b.sec
    \/ a.day = b.day /\ a.sec = b.sec /\ a.us < b.us

DaysInMonth(y, m) ==
    LET
        \* the Gregorian calendar of datetime.date
        IsLeap == y % 4 = 0 /\ (y % 100 # 0 \/ y % 400 = 0)
    IN  IF m = 2 THEN (IF IsLeap THEN 29 ELSE 28)
        ELSE IF m \in {4, 6, 9, 11} THEN 30 ELSE 31

RECURSIVE DaysBeforeMonth(_, _)
DaysBeforeMonth(y, m) ==
    IF m = 1 THEN 0 ELSE DaysBeforeMonth(y, m - 1) + DaysInMonth(y, m - 1)

DaysBeforeYear(y) ==
    (y - 1) * 365 + (y - 1) \div 4 - (y - 1) \div 100 + (y - 1) \div 400

\* datetime.date(y, m, d).toordinal()
Ordinal(y, m, d) == DaysBeforeYear(y) + DaysBeforeMonth(y, m) + d

\* a UTC timestamp from its calendar fields
At(y, m, d, h, mi, sec, us) == Stamp(Ordinal(y, m, d), h * 3600 + mi * 60 + sec, us)

MinOrdinal == Ordinal(1, 1, 1)        \* np.datetime64('0001-01-01')
EndOrdinal == Ordinal(9999, 12, 31) + 1 \* np.datetime64('10000-01-01')

\* astype('datetime64[s]') / astype('timedelta64[s]'): whole seconds, floored
SecondsOf(t) ==
    SAdd(SInt(IF t.day < 0 THEN -1 ELSE 1,
              BMul(BFromNat(IF t.day < 0 THEN -t.day ELSE t.day),
                   BFromNat(SEC_PER_DAY))),
         SFromInt(t.sec))

SMulNat(a, k) == SInt(a.s, BMul(a.m, BFromNat(k)))

\* the value in microseconds
MicrosOf(t) == SAdd(SMulNat(SecondsOf(t), USEC_PER_SEC), SFromInt(t.us))

\* the float constants of lines 57-76
MUSECONDS_PER_DAY == FMul(FFromNat(USEC_PER_SEC), FFromNat(SEC_PER_DAY))

\* _to_ordinalf with line 163 taking the sub-second part off
_to_ordinalf_minus_extra(d, is_timedelta, epoch) ==
    LET t0    == SecondsOf(epoch)
        dt0   == FFromSInt(IF is_timedelta THEN SecondsOf(d)
                           ELSE SSub(SecondsOf(d), t0))
        extra == FFromNat(d.us * 1000)
        dt1   == FAdd(dt0, FNeg(FDivBy(extra, <<625, 3125>>, 9)))
    IN  FDivBy(dt1, <<675>>, 7)

\* _to_ordinalf(d, is_timedelta=...), with the value get_epoch() returns
_to_ordinalf(d, is_timedelta, epoch) ==
    LET t0    == SecondsOf(epoch)           \* np.datetime64(get_epoch(), 's')
        dt0   == FFromSInt(IF is_timedelta THEN SecondsOf(d)
                           ELSE SSub(SecondsOf(d), t0))
        extra == FFromNat(d.us * 1000)      \* (d - dseconds) in ns
        dt1   == FAdd(dt0, FDivBy(extra, <<625, 3125>>, 9))  \* / 1.0e9
    IN  FDivBy(dt1, <<675>>, 7)                               \* / SEC_PER_DAY

\* _timevalue2num for a scalar datetime / timedelta (UTC, microsecond
\* resolution): astype('datetime64[us]') keeps the value
_timevalue2num(v, is_timedelta, epoch) == _to_ordinalf(v, is_timedelta, epoch)

Result(kind, val) == [kind |-> kind, val |-> val]

\* _from_ordinalf(x, tz=UTC), with the value get_epoch() returns
_from_ordinalf(x, epoch) ==
    LET
        FAbs == [x EXCEPT !.s = 1]
        \* numpy.round / rint followed by int(): the nearest integer, ties to even
        FRint(v) ==
            IF v.m = <<>> THEN SInt(1, <<>>)
            ELSE IF v.e >= 0 THEN SInt(v.s, BShl(v.m, v.e))
            ELSE SInt(v.s, BShrRne(v.m, -v.e))
        UnixOrdinal == Ordinal(1970, 1, 1)    \* the origin of numpy.datetime64
        Int64Max == SInt(1, BSub(BShl(<<1>>, 63), <<1>>))
        Int64Min == SInt(-1, BShl(<<1>>, 63))
        TwoTo64 == SInt(1, BShl(<<1>>, 64))
        \* int64 addition of numpy: the sum wraps
        WrapInt64(a) ==
            IF SCmp(a, Int64Max) > 0 THEN SSub(a, TwoTo64)
            ELSE IF SCmp(a, Int64Min) < 0 THEN SAdd(a, TwoTo64)
            ELSE a
        StampOfDays(us, secs, days) ==
            Stamp(BToNat(days) + MinOrdinal,
                  BToNat(BSub(secs, BMul(days, BFromNat(SEC_PER_DAY)))), us)
        StampOfSecs(tot, secs) ==
            StampOfDays(BToNat(BSub(tot, BMul(secs, BFromNat(USEC_PER_SEC)))), secs,
                        BDivChain(secs, <<675, 128>>).q)               \* // 86400
        \* the timestamp of a count of microseconds since 0001-01-01 (day 1)
        StampOfMicros(tot) == StampOfSecs(tot, BDivChain(tot, <<15625, 64>>).q)  \* // 10^6
        \* Python's round(us / 20) * 20: nearest multiple, ties to the even multiple
        RoundTo20(us) ==
            LET q == us \div 20
                r == us % 20
            IN  20 * (IF r > 10 \/ (r = 10 /\ q % 2 = 1) THEN q + 1 ELSE q)
        \* datetime + timedelta(seconds=1); OverflowError past 9999-12-31
        PlusOneSecond(t) ==
            IF t.sec + 1 < SEC_PER_DAY THEN Result("ok", Stamp(t.day, t.sec + 1, 0))
            ELSE IF t.day + 1 >= EndOrdinal THEN Result("OverflowError", None)
            ELSE Result("ok", Stamp(t.day + 1, 0, 0))
        \* lines 203-207: the microsecond replaced by its multiple of twenty
        RoundOffTo(t, ms) ==
            IF ms = USEC_PER_SEC THEN PlusOneSecond(t)
            ELSE Result("ok", [t EXCEPT !.us = ms])
        \* lines 199-209: fix round off errors when x is big
        RoundOff(t) ==
            IF FCmp(FAbs, FFromNat(70 * 365)) > 0 THEN RoundOffTo(t, RoundTo20(t.us))
            ELSE Result("ok", t)
        Unix0 == MicrosOf(Stamp(UnixOrdinal, 0, 0))
        Day1 == MicrosOf(Stamp(MinOrdinal, 0, 0))
        DayEnd == MicrosOf(Stamp(EndOrdinal, 0, 0))
        \* lines 188-198: the range check on dt, microseconds counted from day 0
        FromDt(dt) ==
            IF SCmp(dt, Day1) < 0 \/ SCmp(dt, DayEnd) >= 0 THEN Result("ValueError", None)
            ELSE RoundOff(StampOfMicros(SSub(dt, Day1).m))
        \* NaT passes the range check and fails in dt.tolist().replace
        FromDt64(n, dt64) ==
            IF n = Int64Min \/ dt64 = Int64Min THEN Result("AttributeError", None)
            ELSE FromDt(SAdd(dt64, Unix0))
        \* lines 186-187: np.timedelta64(int(...), 'us') and the int64 sum
        FromMicros(n) ==
            IF SCmp(n, Int64Max) > 0 \/ SCmp(n, Int64Min) < 0
            THEN Result("OverflowError", None)
            ELSE FromDt64(n, WrapInt64(SAdd(SSub(MicrosOf(epoch), Unix0), n)))
    IN  FromMicros(FRint(FMul(x, MUSECONDS_PER_DAY)))

(***************************************************************************)
(* Calendar datetimes, datetime.timedelta and dateutil.relativedelta, as   *)
(* the locators use them.  All datetimes are in UTC.                       *)
(***************************************************************************)
datetime(y, mo, d, h, mi, s, us) ==
    [year |-> y, month |-> mo, day |-> d,
     hour |-> h, minute |-> mi, second |-> s, microsecond |-> us]

MINYEAR == 1
MAXYEAR == 9999

ToStamp(t) ==
    At(t.year, t.month, t.day, t.hour, t.minute, t.second, t.microsecond)

\* the datetime of a timestamp within the years 1..9999
FromStamp(st) ==
    LET
        \* the year of a proleptic Gregorian ordinal (datetime._ord2ymd)
        YearOfOrdinal(ordinal) ==
            LET n    == ordinal - 1
                n400 == n \div 146097
                r400 == n % 146097
                n100 == r400 \div 36524
                r100 == r400 % 36524
                n4   == r100 \div 1461
                n1   == (r100 % 1461) \div 365
                year == n400 * 400 + n100 * 100 + n4 * 4 + n1 + 1
            IN  IF n1 = 4 \/ n100 = 4 THEN year - 1 ELSE year
        MonthOfYearDay(y, yday) ==
            CHOOSE m \in 1..12 :
                /\ DaysBeforeMonth(y, m) < yday
                /\ yday <= DaysBeforeMonth(y, m) + DaysInMonth(y, m)
        DateOfYearDay(y, yday) ==
            datetime(y, MonthOfYearDay(y, yday),
                     yday - DaysBeforeMonth(y, MonthOfYearDay(y, yday)),
                     st.sec \div 3600, (st.sec % 3600) \div 60, st.sec % 60, st.us)
        DateInYear(y) == DateOfYearDay(y, st.day - DaysBeforeYear(y))
    IN  DateInYear(YearOfOrdinal(st.day))

\* a < b for datetimes
Before(a, b) == Earlier(ToStamp(a), ToStamp(b))

\* a timestamp moved by a number of seconds and microseconds, normalized
ShiftStamp(st, secs, us) ==
    LET u == st.us + us
        c == st.sec + secs + (u \div USEC_PER_SEC)
    IN  Stamp(st.day + (c \div SEC_PER_DAY), c % SEC_PER_DAY, u % USEC_PER_SEC)

\* datetime + timedelta(seconds, microseconds): OverflowError out of range
ShiftDate(t, secs, us) ==
    LET st == ShiftStamp(ToStamp(t), secs, us)
    IN  IF st.day < MinOrdinal \/ st.day >= EndOrdinal
        THEN Result("OverflowError", None)
        ELSE Result("ok", FromStamp(st))

\* sign-aware quotient and remainder, as relativedelta._fix takes them
Sign(n) == IF n < 0 THEN -1 ELSE 1
QuoTo0(n, d) == Sign(n) * ((n * Sign(n)) \div d)
RemTo0(n, d) == Sign(n) * ((n * Sign(n)) % d)

\* dt + relativedelta(months=months), the day clipped to the month's end;
\* None when the year leaves 1..9999 (datetime.replace raises ValueError)
AddMonths(dt, months) ==
    LET idx == dt.year * 12 + (dt.month - 1) + months
        y   == idx \div 12
        mo  == (idx % 12) + 1
    IN  IF y < MINYEAR \/ y > MAXYEAR THEN None
        ELSE [dt EXCEPT !.year = y, !.month = mo,
                        !.day = IF dt.day > DaysInMonth(y, mo)
                                THEN DaysInMonth(y, mo) ELSE dt.day]

\* the whole months of relativedelta(dt1, dt2): the calendar difference,
\* moved toward zero while dt2 + months lies beyond dt1
RECURSIVE WholeMonths(_, _, _)
WholeMonths(dt1, dt2, months) ==
    IF Before(dt1, dt2)
    THEN IF Before(AddMonths(dt2, months), dt1)
         THEN WholeMonths(dt1, dt2, months + 1) ELSE months
    ELSE IF Before(dt1, AddMonths(dt2, months))
         THEN WholeMonths(dt1, dt2, months - 1) ELSE months

\* dateutil.relativedelta(dt1, dt2)
relativedelta(dt1, dt2) ==
    LET
        \* seconds and microseconds of the timedelta a - b, as timedelta normalizes
        \* them: 0 <= us < 10^6
        DiffSeconds(a, b) ==
            LET sa == ToStamp(a)
                sb == ToStamp(b)
                borrow == IF sa.us < sb.us THEN 1 ELSE 0
            IN  [seconds      |-> (sa.day - sb.day) * SEC_PER_DAY + (sa.sec - sb.sec)
                                    - borrow,
                 microseconds |-> sa.us - sb.us + borrow * USEC_PER_SEC]
        RelDelta(months, rest) ==
            [years   |-> QuoTo0(months, 12),
             months  |-> RemTo0(months, 12),
             days    |-> QuoTo0(rest.seconds, SEC_PER_DAY),
             hours   |-> RemTo0(QuoTo0(rest.seconds, 3600), 24),
             minutes |-> RemTo0(QuoTo0(rest.seconds, 60), 60),
             seconds |-> RemTo0(rest.seconds, 60),
             microseconds |-> rest.microseconds]
        RelDeltaFrom(months) ==
            RelDelta(months, DiffSeconds(dt1, AddMonths(dt2, months)))
    IN  RelDeltaFrom(WholeMonths(dt1, dt2, (dt1.year - dt2.year) * 12
                                             + (dt1.month - dt2.month)))

\* -delta
NegDelta(rd) == [f \in DOMAIN rd |-> -rd[f]]

\* dt + delta: the years and months first, then the rest as a timedelta
AddDelta(dt, rd) ==
    LET
        AddRest(r) ==
            IF r = None THEN Result("ValueError", None)
            ELSE ShiftDate(r, rd.days * SEC_PER_DAY + rd.hours * 3600
                                + rd.minutes * 60 + rd.seconds, rd.microseconds)
    IN  AddRest(AddMonths(dt, rd.years * 12 + rd.months))

\* dmax - dmin as a datetime.timedelta: days, 0 <= sec < 86400, 0 <= us < 10^6
TimeDelta(a, b) ==
    ShiftStamp(Stamp(ToStamp(a).day - ToStamp(b).day, ToStamp(a).sec,
                     ToStamp(a).us),
               -ToStamp(b).sec, -ToStamp(b).us)

\* timedelta.total_seconds(): the microseconds over 10^6, as a float
total_seconds(td) == FDivBy(FFromSInt(MicrosOf(td)), <<15625>>, 6)

\* numpy.floor of a float that is not negative, as an integer
FFloor(x) ==
    IF x.m = <<>> THEN SInt(1, <<>>)
    ELSE IF x.e >= 0 THEN SInt(x.s, BShl(x.m, x.e))
    ELSE SInt(x.s, BShr(x.m, -x.e))

(***************************************************************************)
(* dateutil.rrule, for the rules the locators build: the fields finer than *)
(* the frequency are given by the by* arguments, and a by* argument is     *)
(* None or a list of numbers.                                              *)
(***************************************************************************)
YEARLY == 0
MONTHLY == 1
WEEKLY == 2
DAILY == 3
HOURLY == 4
MINUTELY == 5
SECONDLY == 6
MICROSECONDLY == SECONDLY + 1

\* a by* argument: a list of numbers (a single number is a list of one)
By(list) == [list |-> list]

range(a, b) == [k \in 1..(b - a) |-> a + k - 1]

\* list[::step]
Slice(list, step) ==
    [k \in 1..((Len(list) + step - 1) \div step) |-> list[(k - 1) * step + 1]]

Elements(list) == {list[k] : k \in DOMAIN list}

\* v passes the by* argument
ByAllows(by, v) == by = None \/ v \in Elements(by.list)

rrulewrapper(freq, interval, dtstart, until, bymonth, bymonthday, byhour, byminute, bysecond) ==
    [freq |-> freq, interval |-> interval, dtstart |-> dtstart, until |-> until,
     bymonth |-> bymonth, bymonthday |-> bymonthday,
     byhour |-> byhour, byminute |-> byminute, bysecond |-> bysecond]

\* rrulewrapper.set(dtstart=, until=)
RuleSet(rule, dtstart, until) ==
    [rule EXCEPT !.dtstart = dtstart, !.until = until]

\* the period of the frequency that t lies in, as a number: its year, its
\* month counted from year 0, or its day, hour, minute or second counted from
\* the day base
PeriodOf(freq, t, base) ==
    CASE freq = YEARLY   -> t.year
      [] freq = MONTHLY  -> t.year * 12 + (t.month - 1)
      [] freq = DAILY    -> ToStamp(t).day - base
      [] freq = HOURLY   -> (ToStamp(t).day - base) * 24 + t.hour
      [] freq = MINUTELY -> ((ToStamp(t).day - base) * 24 + t.hour) * 60 + t.minute
      [] freq = SECONDLY -> (ToStamp(t).day - base) * SEC_PER_DAY + ToStamp(t).sec

\* the first instant of a period, with the finer fields from the by* lists
\* (the month and day of a YEARLY or MONTHLY rule, the time of day of a
\* rule coarser than the field)
Fixed(by) == by.list[1]

\* the occurrences in the periods lo..hi that lie in [after, before], in
\* order; the periods are halved to keep the evaluation shallow
RECURSIVE Occurrences(_, _, _, _, _, _, _)
Occurrences(rule, after, before, base, p0, lo, hi) ==
    LET
        StartOfPeriod(p) ==
            CASE rule.freq = YEARLY ->
                   datetime(p, Fixed(rule.bymonth), Fixed(rule.bymonthday),
                            Fixed(rule.byhour), Fixed(rule.byminute), Fixed(rule.bysecond), 0)
              [] rule.freq = MONTHLY ->
                   datetime(p \div 12, (p % 12) + 1, Fixed(rule.bymonthday),
                            Fixed(rule.byhour), Fixed(rule.byminute), Fixed(rule.bysecond), 0)
              [] rule.freq = DAILY ->
                   FromStamp(Stamp(base + p,
                                   Fixed(rule.byhour) * 3600 + Fixed(rule.byminute) * 60
                                       + Fixed(rule.bysecond), 0))
              [] rule.freq = HOURLY ->
                   FromStamp(Stamp(base + (p \div 24),
                                   (p % 24) * 3600 + Fixed(rule.byminute) * 60
                                       + Fixed(rule.bysecond), 0))
              [] rule.freq = MINUTELY ->
                   FromStamp(Stamp(base + (p \div 1440),
                                   (p % 1440) * 60 + Fixed(rule.bysecond), 0))
              [] rule.freq = SECONDLY ->
                   FromStamp(Stamp(base + (p \div SEC_PER_DAY), p % SEC_PER_DAY, 0))
        \* t is an occurrence of the rule: every by* argument allows it, its period
        \* is a multiple of the interval away from the period of dtstart, and it is
        \* not before dtstart (taken without its microsecond) nor after until
        Occurs(t, p) ==
            /\ (p - p0) % rule.interval = 0
            /\ ByAllows(rule.bymonth, t.month)
            /\ ByAllows(rule.bymonthday, t.day)
            /\ ByAllows(rule.byhour, t.hour)
            /\ ByAllows(rule.byminute, t.minute)
            /\ ByAllows(rule.bysecond, t.second)
            /\ ~Before(t, [rule.dtstart EXCEPT !.microsecond = 0])
            /\ ~Before(rule.until, t)
        \* the occurrence of period p, if it is one and lies in [after, before]
        OccurrenceAt(p, t) ==
            IF /\ Occurs(t, p)
               /\ ~Before(t, after)
               /\ ~Before(before, t)
            THEN <<t>> ELSE <<>>
    IN  IF lo > hi THEN <<>>
        ELSE IF lo = hi
        THEN IF rule.freq = MONTHLY /\ lo \div 12 \notin MINYEAR..MAXYEAR THEN <<>>
             ELSE OccurrenceAt(lo,
                               StartOfPeriod(lo))
        ELSE Occurrences(rule, after, before, base, p0, lo, (lo + hi) \div 2)
             \o Occurrences(rule, after, before, base, p0,
                            ((lo + hi) \div 2) + 1, hi)

\* rrule.between(after, before, inc=True)
between(rule, after, before) ==
    IF Before(before, after) THEN <<>>
    ELSE Occurrences(rule, after, before, ToStamp(after).day,
                     PeriodOf(rule.freq, rule.dtstart, ToStamp(after).day),
                     PeriodOf(rule.freq, after, ToStamp(after).day),
                     PeriodOf(rule.freq, before, ToStamp(after).day))

(***************************************************************************)
(* AutoDateLocator and the locators it hands the view interval to.         *)
(***************************************************************************)
_freqs == <<YEARLY, MONTHLY, DAILY, HOURLY, MINUTELY, SECONDLY, MICROSECONDLY>>

\* lines 1582-1583
_byranges ==
    <<None, By(range(1, 13)), By(range(1, 32)), By(range(0, 24)),
      By(range(0, 60)), By(range(0, 60)), None>>

\* an integer argument where None may be given instead
IntArg(n) == [int |-> n]

\* AutoDateLocator.__init__(tz=UTC, minticks, maxticks, interval_multiples)
AutoDateLocator(minticks, maxticks, interval_multiples) ==
    LET
        \* lines 1553-1562: the maxticks dictionary; an integer argument replaces
        \* every entry
        MaxticksOf ==
            [f \in Elements(_freqs) |->
                IF maxticks # None THEN maxticks.int
                ELSE IF f \in {MONTHLY, HOURLY} THEN 12
                ELSE IF f = MICROSECONDLY THEN 8 ELSE 11]
        \* lines 1564-1580
        IntervaldOf ==
            [f \in Elements(_freqs) |->
                CASE f = YEARLY   -> <<1, 2, 4, 5, 10, 20, 40, 50, 100, 200, 400, 500,
                                       1000, 2000, 4000, 5000, 10000>>
                  [] f = MONTHLY  -> <<1, 2, 3, 4, 6>>
                  [] f = DAILY    -> IF interval_multiples THEN <<1, 2, 4, 7, 14>>
                                     ELSE <<1, 2, 3, 7, 14, 21>>
                  [] f = HOURLY   -> <<1, 2, 3, 4, 6, 12>>
                  [] f = MINUTELY -> <<1, 5, 10, 15, 30>>
                  [] f = SECONDLY -> <<1, 5, 10, 15, 30>>
                  [] f = MICROSECONDLY ->
                        <<1, 2, 5, 10, 20, 50, 100, 200, 500, 1000, 2000, 5000, 10000,
                          20000, 50000, 100000, 200000, 500000, 1000000>>]
    IN  [_freq |-> YEARLY, minticks |-> minticks,
         maxticks |-> MaxticksOf,
         interval_multiples |-> interval_multiples,
         intervald |-> IntervaldOf]

\* lines 1615-1621: the relativedelta and the timedelta of the view, made
\* positive
AbsDelta(dmin, dmax) ==
    IF Before(dmax, dmin) THEN NegDelta(relativedelta(dmax, dmin))
    ELSE relativedelta(dmax, dmin)

AbsTDelta(dmin, dmax) ==
    IF Before(dmax, dmin) THEN TimeDelta(dmin, dmax) ELSE TimeDelta(dmax, dmin)

\* lines 1626-1635: nums[i]
Nums(i, delta, tdelta) ==
    CASE i = 0 -> SFromInt(delta.years)
      [] i = 1 -> SFromInt(delta.years * 12 + delta.months)
      [] i = 2 -> SFromInt(tdelta.day)
      [] i = 3 -> SFromInt(tdelta.day * 24 + delta.hours)
      [] i = 4 -> SFromInt((tdelta.day * 24 + delta.hours) * 60 + delta.minutes)
      [] i = 5 -> FFloor(total_seconds(tdelta))
      [] i = 6 -> FFloor(FMul(total_seconds(tdelta), FFromNat(USEC_PER_SEC)))

\* the walk of lines 1649-1656 skipping a frequency whose num equals minticks
RECURSIVE FirstFrequency_above(_, _, _, _)
FirstFrequency_above(i, delta, tdelta, minticks) ==
    IF i > 6 THEN 7
    ELSE IF SCmp(Nums(i, delta, tdelta), SFromInt(minticks)) <= 0
    THEN FirstFrequency_above(i + 1, delta, tdelta, minticks)
    ELSE i

\* the scan of lines 1660-1662 allowing maxticks intervals instead of
\* maxticks - 1
RECURSIVE FirstInterval_maxticks(_, _, _, _)
FirstInterval_maxticks(list, k, num, maxticks) ==
    IF k > Len(list) THEN 0
    ELSE IF SCmp(num, SFromInt(list[k] * maxticks)) <= 0 THEN k
    ELSE FirstInterval_maxticks(list, k + 1, num, maxticks)

\* byranges[i] of the selected frequency without the slice of line 1675
SelectedByrange_whole(self, i, interval) == _byranges[i + 1]

\* lines 1649-1656: the first index from i on whose num is not below
\* minticks; 7 when the loop runs out
RECURSIVE FirstFrequency(_, _, _, _)
FirstFrequency(i, delta, tdelta, minticks) ==
    IF i > 6 THEN 7
    ELSE IF SCmp(Nums(i, delta, tdelta), SFromInt(minticks)) < 0
    THEN FirstFrequency(i + 1, delta, tdelta, minticks)
    ELSE i

\* lines 1660-1662: the position of the first interval of the list, from k
\* on, with num <= interval * (maxticks - 1); 0 when there is none
RECURSIVE FirstInterval(_, _, _, _)
FirstInterval(list, k, num, maxticks) ==
    IF k > Len(list) THEN 0
    ELSE IF SCmp(num, SFromInt(list[k] * (maxticks - 1))) <= 0 THEN k
    ELSE FirstInterval(list, k + 1, num, maxticks)

\* lines 1674-1685: byranges[i] of the selected frequency
SelectedByrange(self, i, interval) ==
    IF _byranges[i + 1] # None /\ self.interval_multiples
    THEN IF i \in {DAILY, WEEKLY} /\ interval = 14 THEN By(<<1, 15>>)
         ELSE IF i \in {DAILY, WEEKLY} /\ interval = 7 THEN By(<<1, 8, 15, 22>>)
         ELSE By(Slice(_byranges[i + 1].list, interval))
    ELSE _byranges[i + 1]

Locator(kind, rule, interval) == [kind |-> kind, rule |-> rule, interval |-> interval]

\* YearLocator(base, month=1, day=1, tz=UTC)
YearLocator(base) ==
    Locator("YearLocator",
            rrulewrapper(YEARLY, base, None, None,
                         By(<<1>>), By(<<1>>), By(<<0>>), By(<<0>>), By(<<0>>)),
            base)

MicrosecondLocator(interval) == Locator("MicrosecondLocator", None, interval)

\* AutoDateLocator.get_locator(dmin, dmax)
get_locator(self, dmin, dmax) ==
    LET
        \* line 1642
        DefaultByranges == <<None, By(<<1>>), By(<<1>>), By(<<0>>), By(<<0>>), By(<<0>>), None>>
        \* byranges after the loop broke at i
        ByrangesAt(i, interval) ==
            [j \in 1..7 |-> IF j - 1 < i THEN None
                            ELSE IF j - 1 = i THEN SelectedByrange(self, i, interval)
                            ELSE DefaultByranges[j]]
        \* line 1683: the interval handed to the rule
        RuleInterval(i, interval) ==
            IF _byranges[i + 1] # None /\ self.interval_multiples THEN 1 ELSE interval
        RRuleLocatorOf(freq, interval, byranges) ==
            Locator("RRuleLocator",
                    rrulewrapper(freq, interval, dmin, dmax, byranges[2], byranges[3],
                                 byranges[4], byranges[5], byranges[6]),
                    interval)
        \* what get_locator decided: the locator, the new self._freq, the loop
        \* index and frequency it stopped at, the interval it selected and whether
        \* it warned that no interval fits
        Chosen(locator, freq, i, selected, interval, warned) ==
            [locator |-> locator, _freq |-> freq, i |-> i, selected |-> selected,
             interval |-> interval, warned |-> warned]
        \* lines 1690-1702
        BuildLocator(i, interval, warned) ==
            Chosen(IF _freqs[i + 1] = YEARLY /\ self.interval_multiples
                   THEN YearLocator(interval)
                   ELSE IF i < 6
                   THEN RRuleLocatorOf(_freqs[i + 1], RuleInterval(i, interval), ByrangesAt(i, interval))
                   ELSE MicrosecondLocator(interval),
                   _freqs[i + 1], i, TRUE, interval, warned)
        \* lines 1660-1669, with the position the scan of intervald[freq] ended at
        WithInterval(i, list, k) ==
            BuildLocator(i,
                         IF k = 0 THEN list[Len(list)] ELSE list[k],
                         k = 0 /\ ~(self.interval_multiples /\ _freqs[i + 1] = DAILY))
        AtFrequency(delta, tdelta, i) ==
            IF i > 6
            THEN \* lines 1687-1688: no frequency has minticks; self._freq stays
                 Chosen(MicrosecondLocator(1), self._freq, 6, FALSE, 1, FALSE)
            ELSE WithInterval(i, self.intervald[_freqs[i + 1]],
                              FirstInterval(self.intervald[_freqs[i + 1]], 1,
                                            Nums(i, delta, tdelta),
                                            self.maxticks[_freqs[i + 1]]))
        WithDeltas(delta, tdelta) ==
            AtFrequency(delta, tdelta,
                        FirstFrequency(0, delta, tdelta, self.minticks))
    IN  WithDeltas(AbsDelta(dmin, dmax), AbsTDelta(dmin, dmax))

\* ticker._Edge_integer(step, 0).le(x) and .ge(x) for integers: the largest
\* n with n * step <= x and the smallest n with n * step >= x
_Edge_integer_le(step, x) == x \div step
_Edge_integer_ge(step, x) == -((-x) \div step)

Max(a, b) == IF a > b THEN a ELSE b

\* RRuleLocator._create_rrule and YearLocator._create_rrule
_create_rrule(locator, vmin, vmax) ==
    LET
        Min(a, b) == IF a < b THEN a ELSE b
        Created(rule, start, stop) == [rule |-> rule, start |-> start, stop |-> stop]
        \* lines 1436-1447: the ends of the rule, capped at the ends of datetime
        CapStart(r) == IF r.kind = "ok" THEN r.val ELSE datetime(MINYEAR, 1, 1, 0, 0, 0, 0)
        CapStop(r) == IF r.kind = "ok" THEN r.val ELSE datetime(MAXYEAR, 12, 31, 23, 59, 59, 0)
        RRuleCreate(rule, delta) ==
            Created(RuleSet(rule, CapStart(AddDelta(vmin, NegDelta(delta))),
                            CapStop(AddDelta(vmax, delta))),
                    vmin, vmax)
        \* lines 1753-1762
        YearCreate(rule, start, ymax) ==
            Created(RuleSet(rule, start, [start EXCEPT !.year = ymax]),
                    start, [start EXCEPT !.year = ymax])
        YearStart(rule, ymin) ==
            [vmin EXCEPT !.year = ymin, !.month = Fixed(rule.bymonth),
                         !.day = Fixed(rule.bymonthday),
                         !.hour = 0, !.minute = 0, !.second = 0]
    IN  IF locator.kind = "YearLocator"
        THEN YearCreate(locator.rule,
                        YearStart(locator.rule,
                                  Max(_Edge_integer_le(locator.interval, vmin.year)
                                        * locator.interval, MINYEAR)),
                        Min(_Edge_integer_ge(locator.interval, vmax.year)
                              * locator.interval, MAXYEAR))
        ELSE RRuleCreate(locator.rule, relativedelta(vmax, vmin))

Ticked(dates, fallback, ticks) ==
    [dates |-> dates, fallback |-> fallback, ticks |-> ticks]

\* date2num of a list of datetimes
Date2NumList(dates, epoch) ==
    [k \in DOMAIN dates |-> _timevalue2num(ToStamp(dates[k]), FALSE, epoch)]

\* RRuleLocator.tick_values without the test of line 1425
RRuleLocator_tick_values_unguarded(locator, vmin, vmax, epoch) ==
    LET
        RRuleTicks(dates) == Ticked(dates, FALSE, Date2NumList(dates, epoch))
        RRuleBetween(created) == between(created.rule, created.start, created.stop)
    IN  RRuleTicks(RRuleBetween(_create_rrule(locator, vmin, vmax)))

\* RRuleLocator.tick_values(vmin, vmax)
RRuleLocator_tick_values(locator, vmin, vmax, epoch) ==
    LET
        \* lines 1425-1427
        RRuleTicks(dates) ==
            IF Len(dates) = 0
            THEN Ticked(dates, TRUE, Date2NumList(<<vmin, vmax>>, epoch))
            ELSE Ticked(dates, FALSE, Date2NumList(dates, epoch))
        RRuleBetween(created) == between(created.rule, created.start, created.stop)
    IN  RRuleTicks(RRuleBetween(_create_rrule(locator, vmin, vmax)))

\* |x| = A / 2^K for the naturals A = Numerator(x) and K = Scale(x)
Numerator(x) == IF x.e > 0 THEN BShl(x.m, x.e) ELSE x.m
Scale(x) == IF x.e < 0 THEN -x.e ELSE 0

\* |x| - q * step, in units of 2^-Scale(x)
RemainderOf(x, step, q) ==
    BSub(Numerator(x), BShl(BMul(q, BFromNat(step)), Scale(x)))

\* floor(x / step) for a float x and a natural step, exactly (Python's x // step)
FFloorDiv(x, step) ==
    LET
        \* a step of the interval lists as a chain of divisors below a limb
        Factors == IF step < 1000 THEN <<step>> ELSE <<1000, step \div 1000>>
        FloorOf(q, exact) ==
            IF x.s > 0 \/ exact THEN SInt(x.s, q) ELSE SInt(-1, BAdd(q, <<1>>))
        FFloorDivQ(q) == FloorOf(q, RemainderOf(x, step, q) = <<>>)
    IN  IF x.m = <<>> THEN SInt(1, <<>>)
        ELSE FFloorDivQ(BDivChain(BShr(Numerator(x), Scale(x)), Factors).q)

FSub(x, y) == FAdd(x, FNeg(y))

_Edge_ge(x, step) ==
    LET
        \* the m of d, m = divmod(x, step), in units of 2^-Scale(x)
        ModOf(d) ==
            IF x.s > 0 THEN RemainderOf(x, step, d.m)
            ELSE BSub(BShl(BMul(d.m, BFromNat(step)), Scale(x)), Numerator(x))
        \* _Edge_integer.ge(x) for a float x: d, m = divmod(x, step); d when
        \* m / step is within 1e-10 of 0, else d + 1
        EdgeGe(d, rem, scale) ==
            IF BCmp(BMul(rem, BMul(BFromNat(10^5), BFromNat(10^5))),
                    BShl(BFromNat(step), scale)) < 0
            THEN d ELSE SAdd(d, SFromInt(1))
    IN  IF x.m = <<>> THEN SInt(1, <<>>)
        ELSE EdgeGe(FFloorDiv(x, step), ModOf(FFloorDiv(x, step)), Scale(x))

\* ticker.MultipleLocator(step).tick_values(vmin, vmax)
MultipleLocator_tick_values(step, vmin, vmax) ==
    LET
        SToInt(a) == a.s * BToNat(a.m)
        \* vmin - step + np.arange(n + 3) * step
        Locs(first, n) ==
            [k \in 1..Max(n + 3, 0) |-> SAdd(first, SFromInt((k - 2) * step))]
        \* the double 0.001
        F_001 == FDivBy(FFromNat(1), <<125>>, 3)
        MultipleN(top, first) ==
            SToInt(FFloorDiv(FAdd(FSub(top, FFromSInt(first)),
                                  FMul(F_001, FFromNat(step))), step))
        MultipleFrom(top, first) == Locs(first, MultipleN(top, first))
    IN  IF FCmp(vmax, vmin) < 0
        THEN MultipleFrom(vmin, SMulNat(_Edge_ge(vmax, step), step))
        ELSE MultipleFrom(vmax, SMulNat(_Edge_ge(vmin, step), step))

\* MicrosecondLocator.tick_values(vmin, vmax)
MicrosecondLocator_tick_values(locator, vmin, vmax, epoch) ==
    LET
        \* numpy.floor(x), as a float
        FFloorF(x) == FFromSInt(FFloorDiv(x, 1))
        \* lines 1973-1982
        MicroTicks(interval, nmin, nmax, t0) ==
            LET locs == MultipleLocator_tick_values(
                            interval, FMul(FSub(nmin, t0), MUSECONDS_PER_DAY),
                            FMul(FSub(nmax, t0), MUSECONDS_PER_DAY))
            IN  [k \in DOMAIN locs |->
                    FAdd(FDivBy(FFromSInt(locs[k]), <<27, 625, 625>>, 13), t0)]
    IN  Ticked(None, FALSE,
               MicroTicks(locator.interval,
                          _timevalue2num(ToStamp(vmin), FALSE, epoch),
                          _timevalue2num(ToStamp(vmax), FALSE, epoch),
                          FFloorF(_timevalue2num(ToStamp(vmin), FALSE, epoch))))

\* locator.tick_values(vmin, vmax) of the locator get_locator returned
Locator_tick_values(locator, vmin, vmax, epoch) ==
    IF locator.kind = "MicrosecondLocator"
    THEN MicrosecondLocator_tick_values(locator, vmin, vmax, epoch)
    ELSE RRuleLocator_tick_values(locator, vmin, vmax, epoch)

\* lines 1703-1708: the warning for microsecond ticks far from the epoch
FarFromEpoch(chosen, dmin, epoch) ==
    /\ chosen.locator.kind = "MicrosecondLocator"
    /\ FCmp(_timevalue2num(ToStamp(dmin), FALSE, epoch), FFromNat(70 * 365)) > 0
    /\ chosen.locator.interval < 1000

(***************************************************************************)
(* The epoch cell and the public conversion calls.                         *)
(***************************************************************************)
\* epoch strings, as the timestamps numpy.datetime64 parses them to
EpochDefault == At(1970, 1, 1, 0, 0, 0, 0)            \* '1970-01-01T00:00:00'
EpochOld     == Stamp(0, 0, 0)                         \* '0000-12-31'
EpochLate    == At(9930, 1, 1, 0, 0, 0, 0)            \* '9930-01-01'
EpochFrac    == At(1970, 1, 1, 0, 0, 0, 500000)       \* '1970-01-01T00:00:00.5'

\* mpl._val_or_rc(val, 'date.epoch')
_val_or_rc(val, rc) == IF val # None THEN val ELSE rc

\* the arguments the calls are tried with
SetEpochArgs == {EpochDefault, EpochOld}
RcEpochs     == {EpochDefault, EpochOld}
MaxMicro     == 1
CallStamps   ==
    {At(1970, 1, 1, 12, 0, 0, 0), At(2150, 1, 1, 0, 0, 0, 2)}
        \cup {Stamp(Ordinal(1970, 1, 1), 0, u) : u \in 0..MaxMicro}
CallDeltas   == {Stamp(1, 43200, 0), Stamp(-1, 0, 0)}
CallNums     == {FZero, FFromNat(10^9)}

\* the float n - k * 2^(e), e the exponent of the last bit of n (n < 2^15)
FloatBelow(n, k) ==
    FRound(1, BSub(BShl(BFromNat(n), Precision - NatBits(n)), BFromNat(k)),
           NatBits(n) - Precision)

\* the arguments the codec is tried with, under every epoch of CodecEpochs
CodecEpochs == {EpochDefault, EpochOld, EpochLate, EpochFrac}
CodecStamps ==
    CodecEpochs
        \cup {At(1970, 1, 1, 12, 0, 0, 0), At(1900, 1, 1, 0, 0, 0, 1),
              At(2069, 12, 31, 23, 59, 59, 999999),
              At(9999, 12, 31, 23, 59, 59, 999990)}
        \cup {At(2150, 1, 1, 0, 0, 0, 2 + u) : u \in 0..MaxMicro}
CodecDeltas ==
    {Stamp(1, 43200, 0), Stamp(-1, 0, 0)}
        \cup {Stamp(65744, 0, 2 + u) : u \in 0..MaxMicro}
CodecNums ==
    {FZero, FFromNat(10^9), FNeg(FFromNat(10^6)), FloatBelow(25567, 16)}

Call(name, arg, kind, val, src) ==
    [name |-> name, arg |-> arg, kind |-> kind, val |-> val, src |-> src]

IsEncode(o) == o.name \in {"date2num", "timedelta2num"}

\* history kept by every call: the encoding call it follows
Remember == prev' = IF IsEncode(op) THEN op ELSE None

\* what reading the epoch does to the cell: get_epoch() stores the default
ReadEpoch ==
    /\ _epoch' = _val_or_rc(_epoch, rcEpoch)
    /\ firstInit' = IF firstInit = None THEN _epoch' ELSE firstInit

\* set_epoch without the test of line 120
set_epoch_unguarded(epoch) ==
    /\ _epoch' = epoch
    /\ firstInit' = IF firstInit = None THEN epoch ELSE firstInit
    /\ op' = Call("set_epoch", epoch, "ok", None, None)
    /\ Remember
    /\ UNCHANGED <<rcEpoch, converted, epochRead, loc, formatter, rcParams>>

\* date2num with an epoch read that does not store the default in the cell
date2num_transient(d) ==
    /\ UNCHANGED <<_epoch, firstInit, formatter>>
    /\ converted' = TRUE
    /\ op' = Call("date2num", d, "ok",
                  _timevalue2num(d, FALSE, _val_or_rc(_epoch, rcEpoch)), None)
    /\ Remember
    /\ UNCHANGED <<rcEpoch, epochRead, loc, formatter, rcParams>>

_reset_epoch_test_example ==
    /\ _epoch' = None
    /\ firstInit' = None
    /\ converted' = FALSE
    /\ epochRead' = FALSE
    /\ op' = Call("_reset_epoch_test_example", None, "ok", None, None)
    /\ Remember
    /\ UNCHANGED <<rcEpoch, loc, formatter, rcParams>>

set_epoch(epoch) ==
    /\ IF _epoch # None
       THEN /\ op' = Call("set_epoch", epoch, "RuntimeError", None, None)
            /\ UNCHANGED <<_epoch, firstInit, formatter>>
       ELSE /\ _epoch' = epoch
            /\ firstInit' = IF firstInit = None THEN epoch ELSE firstInit
            /\ op' = Call("set_epoch", epoch, "ok", None, None)
    /\ Remember
    /\ UNCHANGED <<rcEpoch, converted, epochRead, loc, formatter, rcParams>>

get_epoch ==
    /\ ReadEpoch
    /\ epochRead' = TRUE
    /\ op' = Call("get_epoch", None, "ok", _epoch', None)
    /\ Remember
    /\ UNCHANGED <<rcEpoch, converted, loc, formatter, rcParams>>

\* rcParams['date.epoch'] = epoch, by the host configuration
rc_update(epoch) ==
    /\ rcEpoch' = epoch
    /\ op' = Call("rc_update", epoch, "ok", None, None)
    /\ Remember
    /\ UNCHANGED <<_epoch, firstInit, converted, epochRead, loc, formatter, rcParams>>

date2num(d) ==
    /\ ReadEpoch
    /\ converted' = TRUE
    /\ op' = Call("date2num", d, "ok", _timevalue2num(d, FALSE, _epoch'), None)
    /\ Remember
    /\ UNCHANGED <<rcEpoch, epochRead, loc, formatter, rcParams>>

\* date2num of an empty sequence: line 315 returns before the epoch is read
date2num_empty ==
    /\ op' = Call("date2num_empty", <<>>, "ok", <<>>, None)
    /\ Remember
    /\ UNCHANGED <<_epoch, rcEpoch, firstInit, converted, epochRead, loc, formatter, rcParams>>

timedelta2num(t) ==
    /\ op' = Call("timedelta2num", t, "ok", _timevalue2num(t, TRUE, None), None)
    /\ Remember
    /\ UNCHANGED <<_epoch, rcEpoch, firstInit, converted, epochRead, loc, formatter, rcParams>>

\* num2date(x, tz=UTC); src is the timestamp x was encoded from, if it was
num2date(x, src) ==
    LET
        CallOf(name, arg, r) == Call(name, arg, r.kind, r.val, src)
    IN  /\ ReadEpoch
        /\ converted' = TRUE
        /\ op' = CallOf("num2date", x, _from_ordinalf(x, _epoch'))
        /\ Remember
        /\ UNCHANGED <<rcEpoch, epochRead, loc, formatter, rcParams>>

TickValuesOf(chosen, dmin, dmax, epoch) ==
    LET
        \* nums of lines 1634-1635, indexed as in the code
        NumsOf ==
            [i \in 0..6 |-> Nums(i, AbsDelta(dmin, dmax), AbsTDelta(dmin, dmax))]
        \* what a tick_values call decided and returned
        TickValues(nums, out, far) ==
            [locator |-> chosen.locator, _freq |-> chosen._freq, i |-> chosen.i,
             selected |-> chosen.selected, interval |-> chosen.interval,
             warned |-> chosen.warned, nums |-> nums, dates |-> out.dates,
             fallback |-> out.fallback, ticks |-> out.ticks, far |-> far]
    IN  TickValues(NumsOf,
                   Locator_tick_values(chosen.locator, dmin, dmax, epoch),
                   FarFromEpoch(chosen, dmin, epoch))

\* AutoDateLocator(tz=UTC, minticks, maxticks, interval_multiples)
AutoDateLocator__init__(minticks, maxticks, interval_multiples) ==
    /\ loc' = AutoDateLocator(minticks, maxticks, interval_multiples)
    /\ op' = Call("AutoDateLocator", <<minticks, maxticks, interval_multiples>>,
                  "ok", None, None)
    /\ Remember
    /\ UNCHANGED <<_epoch, rcEpoch, firstInit, converted, epochRead, formatter, rcParams>>

tick_values(dmin, dmax) ==
    LET
        \* AutoDateLocator.tick_values(vmin, vmax): get_locator, which stores
        \* self._freq, then the tick_values of the locator it returned, which
        \* calls date2num
        TickValuesWith(chosen) ==
            /\ ReadEpoch
            /\ converted' = TRUE
            /\ loc' = [loc EXCEPT !._freq = chosen._freq]
            /\ op' = Call("tick_values", <<dmin, dmax>>, "ok",
                          TickValuesOf(chosen, dmin, dmax, _epoch'), None)
            /\ Remember
            /\ UNCHANGED <<rcEpoch, epochRead, formatter, rcParams>>
    IN  /\ loc # None
        /\ TickValuesWith(get_locator(loc, dmin, dmax))

\* float values that are not finite
NaN == [nan |-> TRUE]
Inf(s) == [inf |-> s]
isfinite(x) == x # NaN /\ x # Inf(1) /\ x # Inf(-1)

\* a > b for floats, finite or not
FGreater(a, b) ==
    IF isfinite(a) /\ isfinite(b) THEN FCmp(a, b) > 0
    ELSE \/ a = Inf(1) /\ b # NaN /\ b # Inf(1)
         \/ b = Inf(-1) /\ a # NaN /\ a # Inf(-1)

\* DateLocator.viewlim_to_dt() for the view interval (vmin, vmax) of the axis
viewlim_to_dt(vmin, vmax, epoch) ==
    LET
        \* num2date(x, tz): int() of line 187 raises ValueError for nan and
        \* OverflowError for an infinity
        Num2Date(x) ==
            IF x = NaN THEN Result("ValueError", None)
            ELSE IF ~isfinite(x) THEN Result("OverflowError", None)
            ELSE _from_ordinalf(x, epoch)
        Dates(a, b) ==
            IF a.kind # "ok" THEN a
            ELSE IF b.kind # "ok" THEN b
            ELSE Result("ok", <<FromStamp(a.val), FromStamp(b.val)>>)
        Ordered(lo, hi) == Dates(Num2Date(lo), Num2Date(hi))
    IN  IF FGreater(vmin, vmax) THEN Ordered(vmax, vmin) ELSE Ordered(vmin, vmax)

\* __call__ of a locator on an axis whose view interval is (vmin, vmax); it
\* returns a list of ticks or raises
Called(locator, vmin, vmax, kind, val) ==
    Call("__call__", <<locator, vmin, vmax>>, kind, val, None)

\* the AutoDateLocator instance loc, as the receiver of a call
Self == Locator("AutoDateLocator", None, None)

\* locator.__call__() on an axis whose view interval is (vmin, vmax), for
\* RRuleLocator and its subclasses, MicrosecondLocator and AutoDateLocator
Locator__call__(self, vmin, vmax) ==
    LET
        \* line 1588: the locator get_locator returns, with the self._freq it
        \* stores; the other locators tick themselves
        Ticking(r) ==
            IF self = Self /\ r.kind = "ok" THEN get_locator(loc, r.val[1], r.val[2])
            ELSE [locator |-> self, _freq |-> IF self = Self THEN loc._freq ELSE None]
        \* lines 1415-1420 and 1964-1969: ValueError from viewlim_to_dt is
        \* caught; lines 1587-1589: viewlim_to_dt outside any try, then the
        \* __call__ of the locator chosen, on the same axis
        CallWith(r, chosen, epoch) ==
            IF r.kind = "ok"
            THEN Called(self, vmin, vmax, "ok",
                        Locator_tick_values(chosen.locator, r.val[1], r.val[2],
                                            epoch).ticks)
            ELSE IF r.kind = "ValueError" /\ self # Self
            THEN Called(self, vmin, vmax, "ok", <<>>)
            ELSE Called(self, vmin, vmax, r.kind, None)
    IN  /\ self = Self => loc # None
        /\ ReadEpoch
        /\ converted' = TRUE
        /\ \E r \in {viewlim_to_dt(vmin, vmax, _epoch')} :
             \E chosen \in {Ticking(r)} :
                /\ loc' = IF self = Self THEN [loc EXCEPT !._freq = chosen._freq]
                          ELSE loc
                /\ op' = CallWith(r, chosen, _epoch')
        /\ Remember
        /\ UNCHANGED <<rcEpoch, epochRead, formatter, rcParams>>

\* RRuleLocator.get_unit_generic(freq): the days of a unit of the frequency
get_unit_generic(freq) ==
    CASE freq = YEARLY   -> FFromNat(365)                          \* DAYS_PER_YEAR
      [] freq = MONTHLY  -> FFromNat(30)                           \* DAYS_PER_MONTH
      [] freq = WEEKLY   -> FFromNat(7)                            \* DAYS_PER_WEEK
      [] freq = DAILY    -> FFromNat(1)
      [] freq = HOURLY   -> FDivBy(FFromNat(1), <<24>>, 0)         \* 1.0 / HOURS_PER_DAY
      [] freq = MINUTELY -> FDivBy(FFromNat(1), <<45>>, 5)         \* 1.0 / MINUTES_PER_DAY
      [] freq = SECONDLY -> FDivBy(FFromNat(1), <<675>>, 7)        \* 1.0 / SEC_PER_DAY
      [] OTHER           -> FNeg(FFromNat(1))

\* TimedeltaLocator._FACTORS[freq]
_FACTORS(freq) ==
    IF freq = MICROSECONDLY
    THEN FDivBy(FFromNat(1), <<27, 625, 625>>, 13)               \* 1.0 / MUSECONDS_PER_DAY
    ELSE get_unit_generic(freq)

\* TimedeltaLocator(freq, interval)
TimedeltaLocator(freq, interval) ==
    [kind |-> "TimedeltaLocator", _freq |-> freq, _interval |-> interval]

\* AutoTimedeltaLocator(minticks, maxticks=None)
AutoTimedeltaLocator(minticks) ==
    [kind |-> "AutoTimedeltaLocator", _freq |-> DAILY, _interval |-> 1,
     _freqs |-> <<DAILY, HOURLY, MINUTELY, SECONDLY, MICROSECONDLY>>,
     minticks |-> minticks,
     maxticks |-> <<11, 12, 11, 11, 8>>,
     intervald |->
        <<<<1, 2, 5, 10, 20, 50, 100, 200, 500, 1000, 2000, 5000, 10000, 20000,
            50000, 100000, 200000, 500000, 1000000>>,
          <<1, 2, 3, 4, 6, 12>>, <<1, 5, 10, 15, 30>>, <<1, 5, 10, 15, 30>>,
          <<1, 2, 5, 10, 20, 50, 100, 200, 500, 1000, 2000, 5000, 10000, 20000,
            50000, 100000, 200000, 500000, 1000000>>>>]

\* num2timedelta(x): datetime.timedelta(days=x) for a float x
num2timedelta(x) ==
    LET
        ToInt(a) == a.s * BToNat(a.m)
        \* math.modf: the whole part, toward zero, as a signed integer
        Trunc(v) == IF v.s > 0 THEN FFloorDiv(v, 1) ELSE SNeg(FFloorDiv(FNeg(v), 1))
        \* round(), to the nearest integer with ties to even
        Round(v) ==
            IF v.m = <<>> THEN 0
            ELSE IF v.e >= 0 THEN v.s * BToNat(BShl(v.m, v.e))
            ELSE v.s * BToNat(BShrRne(v.m, -v.e))
        \* days, seconds and microseconds normalized: 0 <= sec < 86400 and
        \* 0 <= us < 10^6
        Normal(d, sec, us) ==
            IF d > 999999999 \/ d < -999999999 THEN Result("OverflowError", None)
            ELSE Result("ok", ShiftStamp(Stamp(d, 0, 0), sec, us))
        FromSeconds(d, t, whole) ==
            Normal(d, ToInt(whole),
                   Round(FMul(FSub(t, FFromSInt(whole)), FFromNat(USEC_PER_SEC))))
        FromDayfrac(d, t) == FromSeconds(d, t, Trunc(t))
        FromDays(whole) ==
            IF BBits(whole.m) > 30 THEN Result("OverflowError", None)
            ELSE FromDayfrac(ToInt(whole),
                             FMul(FSub(x, FFromSInt(whole)), FFromNat(SEC_PER_DAY)))
    IN  IF x = NaN THEN Result("ValueError", None)
        ELSE IF ~isfinite(x) THEN Result("OverflowError", None)
        ELSE FromDays(Trunc(x))

\* AutoTimedeltaLocator.update_from_limits(dmin, dmax): the locator with the
\* frequency and interval it sets, and the counts it takes them from
update_from_limits(self, dmin, dmax) ==
    LET
        ToInt(a) == a.s * BToNat(a.m)
        \* lines 2150-2153
        Delta == IF Earlier(dmax, dmin)
                 THEN ShiftStamp(Stamp(dmin.day - dmax.day, dmin.sec, dmin.us),
                                 -dmax.sec, -dmax.us)
                 ELSE ShiftStamp(Stamp(dmax.day - dmin.day, dmax.sec, dmax.us),
                                 -dmin.sec, -dmin.us)
        \* lines 2154-2160, the counts being whole floats; numSeconds is not
        \* negative, and the floor of its float quotient is its whole quotient
        NumsOf(delta, numSeconds) ==
            <<SFromInt(delta.day),
              SAdd(SFromInt(delta.day * 24), SInt(1, BDivChain(numSeconds.m, <<3600>>).q)),
              SAdd(SFromInt(delta.day * 1440), SInt(1, BDivChain(numSeconds.m, <<60>>).q)),
              numSeconds,
              FFloor(FMul(total_seconds(delta), FFromNat(USEC_PER_SEC)))>>
        \* lines 2166-2179: the first frequency with minticks, the first interval
        \* of its list that fits, and the values the names freq and interval hold
        \* when the loop runs out
        Enough(nums) == {i \in 1..5 : SCmp(nums[i], SFromInt(self.minticks)) >= 0}
        First(idx) == CHOOSE i \in idx : \A j \in idx : i <= j
        IntervalAt(list, k) == IF k = 0 THEN list[Len(list)] ELSE list[k]
        Updated(nums, i, interval) ==
            [self EXCEPT !._freq = self._freqs[i], !._interval = interval] @@ [nums |-> nums]
        AtFrequency(nums, i) ==
            Updated(nums, i,
                    IntervalAt(self.intervald[i],
                               FirstInterval(self.intervald[i], 1, nums[i],
                                             self.maxticks[i])))
        Select(nums, idx) ==
            IF idx = {} THEN Updated(nums, 5, 1) ELSE AtFrequency(nums, First(idx))
        WithNums(nums) == Select(nums, Enough(nums))
    IN  WithNums(NumsOf(Delta, FFloor(total_seconds(Delta))))

\* locator._get_unit(): the days of a unit of the locator (for a timedelta
\* locator, self._FACTORS[self._freq])
_get_unit(self) ==
    IF self = Self
    THEN IF loc._freq = MICROSECONDLY THEN _FACTORS(MICROSECONDLY)
         ELSE get_unit_generic(loc._freq)
    ELSE IF self.kind \in {"TimedeltaLocator", "AutoTimedeltaLocator"}
    THEN _FACTORS(self._freq)
    ELSE IF self.kind = "MicrosecondLocator" THEN _FACTORS(MICROSECONDLY)
    ELSE get_unit_generic(self.rule.freq)

\* locator._get_interval(): the units between ticks (for a timedelta locator,
\* self._interval)
_get_interval(self) ==
    IF self = Self THEN 1
    ELSE IF self.kind \in {"TimedeltaLocator", "AutoTimedeltaLocator"}
    THEN self._interval
    ELSE self.interval

\* locator.nonsingular(vmin, vmax): the range returned, or the exception
nonsingular(self, vmin, vmax, epoch) ==
    LET
        IsTimedelta == self.kind \in {"TimedeltaLocator", "AutoTimedeltaLocator"}
        \* lines 1338-1343 and 2005-2006
        default_range ==
            IF IsTimedelta THEN <<FZero, FFromNat(1)>>
            ELSE <<_timevalue2num(At(1970, 1, 1, 0, 0, 0, 0), FALSE, epoch),
                   _timevalue2num(At(1970, 1, 2, 0, 0, 0, 0), FALSE, epoch)>>
        \* lines 1396-1398 and 2058-2060: 2 * unit * interval when the range is
        \* closer than 1e-6; lines 1602-1604: DAYS_PER_YEAR * 2 when it is a point
        Margin(lo, hi, me) ==
            IF self = Self
            THEN IF lo = hi THEN FMul(FFromNat(365), FFromNat(2)) ELSE None
            ELSE IF FCmp([FSub(hi, lo) EXCEPT !.s = 1],
                         FDivBy(FFromNat(1), <<15625>>, 6)) < 0
            THEN FMul(FMul(FFromNat(2), _get_unit(me)), FFromNat(_get_interval(me)))
            ELSE None
        Widen(lo, hi, by) ==
            IF by = None THEN <<lo, hi>> ELSE <<FSub(lo, by), FAdd(hi, by)>>
        Finite(lo, hi, me) == Widen(lo, hi, Margin(lo, hi, me))
        \* lines 1389-1393, 1597-1601 and 2052-2056
        Checked(me) ==
            IF ~isfinite(vmin) \/ ~isfinite(vmax) THEN Result("ok", default_range)
            ELSE Result("ok", Finite(IF FCmp(vmax, vmin) < 0 THEN vmax ELSE vmin,
                                     IF FCmp(vmax, vmin) < 0 THEN vmin ELSE vmax, me))
        \* lines 2190-2191: update_from_limits(*num2timedelta([vmin, vmax])) first
        Updating(dmin, dmax) ==
            IF dmin.kind # "ok" THEN dmin
            ELSE IF dmax.kind # "ok" THEN dmax
            ELSE Result("ok", update_from_limits(self, dmin.val, dmax.val))
        Updated(me) == IF me.kind # "ok" THEN me ELSE Checked(me.val)
    IN  Updated(IF self.kind = "AutoTimedeltaLocator"
                THEN Updating(num2timedelta(vmin), num2timedelta(vmax))
                ELSE Result("ok", self))

\* locator.nonsingular(vmin, vmax), called by the axis when it autoscales
Locator_nonsingular(self, vmin, vmax) ==
    /\ self = Self => loc # None
    /\ IF self.kind \in {"TimedeltaLocator", "AutoTimedeltaLocator"}
          \/ (isfinite(vmin) /\ isfinite(vmax))
       THEN UNCHANGED <<_epoch, firstInit, converted, formatter>>
       ELSE ReadEpoch /\ converted' = TRUE
    /\ \E r \in {nonsingular(self, vmin, vmax, _epoch')} :
          op' = Call("nonsingular", <<self, vmin, vmax>>, r.kind, r.val, None)
    /\ Remember
    /\ UNCHANGED <<rcEpoch, epochRead, loc, formatter, rcParams>>

Init ==
    /\ _epoch = None
    /\ rcEpoch \in RcEpochs
    /\ firstInit = None
    /\ converted = FALSE
    /\ epochRead = FALSE
    /\ op = Call("import", None, "ok", None, None)
    /\ prev = None
    /\ loc = None
    /\ formatter = None
    /\ rcParams = [converter |-> "auto", interval_multiples |-> TRUE]

Next ==
    \/ _reset_epoch_test_example
    \/ \E e \in SetEpochArgs : set_epoch(e)
    \/ get_epoch
    \/ \E e \in RcEpochs : rc_update(e)
    \/ \E d \in CallStamps : date2num(d)
    \/ date2num_empty
    \/ \E t \in CallDeltas : timedelta2num(t)
    \/ \E x \in CallNums : num2date(x, None)
    \/ op.name = "date2num" /\ num2date(op.val, op.arg)

Spec == Init /\ [][Next]_vars

\* the codec under each epoch: the epoch is set, or left to the default, and
\* dates, timedeltas and numbers are converted
NextCodec ==
    \/ \E e \in CodecEpochs : set_epoch(e)
    \/ \E d \in CodecStamps : date2num(d)
    \/ \E t \in CodecDeltas : timedelta2num(t)
    \/ \E x \in CodecNums : num2date(x, None)
    \/ op.name = "date2num" /\ num2date(op.val, op.arg)

SpecCodec == Init /\ [][NextCodec]_vars

\* the views the locator is asked to tick: years, months, days, hours,
\* minutes, seconds and microseconds apart, in both orders
Day(y, m, d) == datetime(y, m, d, 0, 0, 0, 0)

Views ==
    {<<Day(2001, 1, 16), Day(2001, 3, 28)>>,
     <<Day(2010, 1, 1), Day(2012, 1, 1)>>,
     <<Day(2010, 1, 1), Day(2011, 12, 31)>>,
     <<Day(2011, 3, 15), Day(2013, 3, 15)>>,
     <<Day(2012, 1, 1), Day(2010, 1, 1)>>,
     <<Day(2000, 12, 1), Day(2011, 1, 1)>>,
     <<Day(2000, 1, 1), Day(2005, 1, 1)>>,
     <<Day(1990, 6, 1), Day(2051, 6, 1)>>,
     <<Day(3, 1, 1), Day(40, 1, 1)>>,
     <<Day(2001, 1, 1), Day(2001, 1, 6)>>,
     <<Day(2001, 1, 1), datetime(2001, 1, 2, 12, 0, 0, 0)>>,
     <<Day(2001, 1, 1), datetime(2001, 1, 1, 1, 30, 0, 0)>>,
     <<datetime(2000, 12, 31, 23, 59, 40, 0), datetime(2001, 1, 1, 0, 0, 25, 0)>>,
     <<Day(1970, 1, 2), datetime(1970, 1, 2, 0, 0, 0, 7)>>,
     <<Day(2050, 1, 1), datetime(2050, 1, 1, 0, 0, 0, 40)>>,
     <<Day(1970, 1, 2), datetime(1970, 1, 2, 0, 0, 0, 3)>>,
     <<Day(1970, 1, 2), Day(1970, 1, 2)>>}

\* the constructor arguments (minticks, maxticks, interval_multiples): the
\* defaults, and each argument changed
Locators ==
    {<<5, None, TRUE>>, <<5, None, FALSE>>, <<5, IntArg(3), TRUE>>,
     <<5, IntArg(3), FALSE>>, <<3, None, TRUE>>}

\* the view intervals of the axis a locator is called on: a point, intervals
\* with an end before year 1 or with no date, and an end past the int64
\* microseconds
AxisViews ==
    {<<FZero, FZero>>, <<FNeg(FFromNat(10^6)), FFromNat(1)>>,
     <<NaN, NaN>>, <<Inf(1), Inf(-1)>>, <<FFromNat(1), FFromNat(10^9)>>}

\* locators built directly: YearLocator(), DayLocator() and
\* MicrosecondLocator()
DirectLocators ==
    {YearLocator(1),
     Locator("RRuleLocator",
             rrulewrapper(DAILY, 1, None, None, None, By(range(1, 32)),
                          By(<<0>>), By(<<0>>), By(<<0>>)), 1),
     MicrosecondLocator(1)}

\* a locator is built and asked for the ticks of a view, under the
\* configured epoch
NextLocator ==
    \/ \E a \in Locators : AutoDateLocator__init__(a[1], a[2], a[3])
    \/ \E v \in Views : tick_values(v[1], v[2])

SpecLocator == Init /\ [][NextLocator]_vars

\* locators are built, set on an axis and called with its view interval
NextAxis ==
    \/ \E m \in BOOLEAN : AutoDateLocator__init__(5, None, m)
    \/ \E l \in DirectLocators \cup {Self}, v \in AxisViews :
            Locator__call__(l, v[1], v[2])

SpecAxis == Init /\ [][NextAxis]_vars

\* the float 1 + 2^-30, less than 1e-6 above 1
NearOne == FAdd(FFromNat(1), FDivBy(FFromNat(1), <<1>>, 30))

\* the bounds nonsingular is given: not finite, a point, closer than 1e-6,
\* apart, descending, and beyond the days of a timedelta
Bounds ==
    {<<NaN, FFromNat(1)>>, <<FZero, Inf(1)>>, <<Inf(-1), Inf(1)>>,
     <<FFromNat(1), FFromNat(1)>>, <<FFromNat(1), NearOne>>, <<NearOne, FFromNat(1)>>,
     <<FZero, FFromNat(1)>>, <<FFromNat(3), FFromNat(1)>>,
     <<FZero, FFromNat(10^9 + 1)>>}

\* the locators nonsingular is called on
NonsingularLocators ==
    DirectLocators
        \cup {Self, YearLocator(5), MicrosecondLocator(20), TimedeltaLocator(HOURLY, 4),
              AutoTimedeltaLocator(5)}

\* locators are built and asked to make a range nonsingular
NextNonsingular ==
    \/ \E m \in BOOLEAN : AutoDateLocator__init__(5, None, m)
    \/ \E l \in NonsingularLocators, b \in Bounds : Locator_nonsingular(l, b[1], b[2])

SpecNonsingular == Init /\ [][NextNonsingular]_vars

(***************************************************************************)
(* Strings and the concise formatters.  A string is the sequence of its    *)
(* characters; a format string is the sequence of its directives ("%Y",    *)
(* "%-H", ...) and of the characters between them.                         *)
(***************************************************************************)
\* str(n) of an integer that is not negative
RECURSIVE str(_)
str(n) ==
    LET Digit(k) == <<"0", "1", "2", "3", "4", "5", "6", "7", "8", "9">>[k + 1]
    IN  IF n < 10 THEN <<Digit(n)>> ELSE str(n \div 10) \o <<Digit(n % 10)>>

\* '{:0<width>d}'.format(n)
zfill(n, width) ==
    IF Len(str(n)) >= width THEN str(n)
    ELSE [i \in 1..(width - Len(str(n))) |-> "0"] \o str(n)

\* ''.join(parts)
RECURSIVE join(_)
join(parts) == IF parts = <<>> THEN <<>> ELSE Head(parts) \o join(Tail(parts))

\* s.rstrip(c)
RECURSIVE rstrip(_, _)
rstrip(s, c) ==
    IF s # <<>> /\ s[Len(s)] = c THEN rstrip(SubSeq(s, 1, Len(s) - 1), c) ELSE s

\* datetime.strftime(fmt) in the C locale, for a year of four digits
strftime(value, fmt) ==
    LET
        Abbreviated ==
            <<<<"J", "a", "n">>, <<"F", "e", "b">>, <<"M", "a", "r">>, <<"A", "p", "r">>,
              <<"M", "a", "y">>, <<"J", "u", "n">>, <<"J", "u", "l">>, <<"A", "u", "g">>,
              <<"S", "e", "p">>, <<"O", "c", "t">>, <<"N", "o", "v">>, <<"D", "e", "c">>>>
        Directive(code) ==
            CASE code = "%Y" -> zfill(value.year, 4)
              [] code = "%b" -> Abbreviated[value.month]
              [] code = "%m" -> zfill(value.month, 2)
              [] code = "%d" -> zfill(value.day, 2)
              [] code = "%H" -> zfill(value.hour, 2)
              [] code = "%M" -> zfill(value.minute, 2)
              [] code = "%S" -> zfill(value.second, 2)
              [] code = "%f" -> zfill(value.microsecond, 6)
              [] OTHER -> <<code>>
    IN  join([i \in DOMAIN fmt |-> Directive(fmt[i])])

\* divmod(x, step) of Python for a float x and a whole step: the quotient as an
\* integer and the remainder as a float (fmod is exact; a remainder of a
\* negative x is step - fmod(|x|, step), rounded)
divmod(x, step) ==
    LET
        \* the step as a chain of divisors below a limb
        Factors == IF step = SEC_PER_DAY THEN <<675, 128>> ELSE <<step>>
        Signed(q, r, above) ==
            IF x.s > 0 \/ r.m = <<>> THEN [div |-> SInt(x.s, q), mod |-> r]
            ELSE [div |-> SInt(-1, BAdd(q, <<1>>)), mod |-> above]
    IN  IF x.m = <<>> THEN [div |-> SInt(1, <<>>), mod |-> FZero]
        ELSE CHOOSE d \in UNION
                {{Signed(q, r, FSub(FFromNat(step), r)) :
                    r \in {FRound(1, RemainderOf(x, step, q), -Scale(x))}} :
                 q \in {BDivChain(BShr(Numerator(x), Scale(x)), Factors).q}} : TRUE

\* strftimedelta(td, fmt_str), lines 502-535
strftimedelta(td, fmt_str) ==
    LET
        ToInt(a) == a.s * BToNat(a.m)
        \* lines 502-528: the sign and the whole values of the codes
        Values(total, s_t, days, minutes, hours) ==
            [sign |-> IF total.s < 0 THEN <<"-">> ELSE <<>>,
             d |-> ToInt(days.div), m_t |-> ToInt(minutes.div),
             s |-> ToInt(FFloor(minutes.mod)), s_t |-> ToInt(FFloor(s_t)),
             h_t |-> ToInt(hours.div)]
        \* lines 530-535
        Value(v, code) ==
            CASE code = "%d" -> str(v.d)
              [] code = "%>H" -> str(v.h_t)
              [] code = "%>M" -> str(v.m_t)
              [] code = "%>S" -> str(v.s_t)
              [] code = "%H" -> zfill(v.m_t \div 60, 2)
              [] code = "%M" -> zfill(v.m_t % 60, 2)
              [] code = "%S" -> zfill(v.s, 2)
              [] code = "%-H" -> str(v.m_t \div 60)
              [] code = "%-M" -> str(v.m_t % 60)
              [] code = "%-S" -> str(v.s)
              [] code = "%f" -> zfill(td.us, 6)
              [] OTHER -> <<code>>
    IN  CHOOSE result \in UNION UNION UNION
            {{{{v.sign \o join([i \in DOMAIN fmt_str |-> Value(v, fmt_str[i])]) :
                    v \in {Values(total, s_t, days, minutes, hours)}} :
                  minutes \in {divmod(days.mod, 60)}, hours \in {divmod(s_t, 3600)}} :
                days \in {divmod(s_t, SEC_PER_DAY)}} :
              total \in {total_seconds(td)}, s_t \in {[total_seconds(td) EXCEPT !.s = 1]}} : TRUE

\* ConciseDateFormatter(locator, None, formats, offset_formats, zero_formats,
\* show_offset), lines 797-845: the instance, or the ValueError of a list of
\* the wrong length.  A list argument is None or By(list).
ConciseDateFormatter(formats, offset_formats, zero_formats, show_offset) ==
    LET
        Given(arg) == arg # None /\ arg.list # <<>>
        WrongLength(arg) == Given(arg) /\ Len(arg.list) # 6
        HourMinute == <<"%H", ":", "%M">>
        Formats ==
            IF Given(formats) THEN formats.list
            ELSE <<<<"%Y">>, <<"%b">>, <<"%d">>, HourMinute, HourMinute,
                   <<"%S", ".", "%f">>>>
        Shifted == <<<<>>>> \o SubSeq(Formats, 1, Len(Formats) - 1)
        ZeroFormats ==
            IF Given(zero_formats) THEN zero_formats.list
            ELSE IF Given(formats) THEN Shifted
            ELSE [Shifted EXCEPT ![4] = <<"%b", "-", "%d">>]
        Date == <<"%Y", "-", "%b", "-", "%d">>
        OffsetFormats ==
            IF Given(offset_formats) THEN offset_formats.list
            ELSE <<<<>>, <<"%Y">>, <<"%Y", "-", "%b">>, Date, Date,
                   Date \o <<" ">> \o HourMinute>>
    IN  IF WrongLength(formats) \/ WrongLength(zero_formats) \/ WrongLength(offset_formats)
        THEN Result("ValueError", None)
        ELSE Result("ok", [kind |-> "ConciseDateFormatter", offset_string |-> <<>>,
                           show_offset |-> show_offset,
                           _zerovals |-> <<0, 1, 1, 0, 0, 0, 0>>,
                           formats |-> Formats, zero_formats |-> ZeroFormats,
                           offset_formats |-> OffsetFormats])

\* ConciseTimedeltaFormatter(locator, formats, offset_formats, zero_formats,
\* show_offset), lines 917-949
ConciseTimedeltaFormatter(formats, offset_formats, zero_formats, show_offset) ==
    LET
        Given(arg) == arg # None /\ arg.list # <<>>
        WrongLength(arg) == Given(arg) /\ Len(arg.list) # 4
        Days == <<"%d", " ", "d">>
        HourMinute == <<"%-H", ":", "%M">>
        Formats ==
            IF Given(formats) THEN formats.list
            ELSE <<Days, HourMinute, HourMinute, <<"%-S", ".", "%f">>>>
        ZeroFormats ==
            IF Given(zero_formats) THEN zero_formats.list
            ELSE <<Days>> \o SubSeq(Formats, 1, Len(Formats) - 1)
        ManyDays == <<"%d", " ", "d", "a", "y", "s">>
        OffsetFormats ==
            IF Given(offset_formats) THEN offset_formats.list
            ELSE <<<<>>, <<>>, ManyDays, ManyDays \o <<" ">> \o HourMinute>>
    IN  IF WrongLength(formats) \/ WrongLength(zero_formats) \/ WrongLength(offset_formats)
        THEN Result("ValueError", None)
        ELSE Result("ok", [kind |-> "ConciseTimedeltaFormatter", offset_string |-> <<>>,
                           show_offset |-> show_offset,
                           _zerovals |-> <<0, 0, 0, 0, 0, 0, 0>>,
                           formats |-> Formats, zero_formats |-> ZeroFormats,
                           offset_formats |-> OffsetFormats])

\* the constructor of either concise formatter, called with its arguments
Formatter__init__(kind, formats, offset_formats, zero_formats, show_offset) ==
    LET Built(r) ==
            /\ formatter' = IF r.kind = "ok" THEN r.val ELSE formatter
            /\ op' = Call("__init__",
                          <<kind, formats, offset_formats, zero_formats, show_offset>>,
                          r.kind, None, None)
    IN  /\ Built(IF kind = "ConciseDateFormatter"
                 THEN ConciseDateFormatter(formats, offset_formats, zero_formats,
                                           show_offset)
                 ELSE ConciseTimedeltaFormatter(formats, offset_formats, zero_formats,
                                                show_offset))
        /\ Remember
        /\ UNCHANGED <<_epoch, rcEpoch, firstInit, converted, epochRead, loc, rcParams>>

\* ConciseTimedeltaFormatter._make_timetuple(td), lines 955-963; the seconds
\* are a float that keeps the fraction
_make_timetuple(td) ==
    LET ToInt(a) == a.s * BToNat(a.m)
    IN  CHOOSE t \in UNION UNION
            {{{<<0, 0, ToInt(days.div), ToInt(minutes.div) \div 60,
                 ToInt(minutes.div) % 60, minutes.mod, td.us>> :
                  minutes \in {divmod(days.mod, 60)}} :
                days \in {divmod(s_t, SEC_PER_DAY)}} :
              s_t \in {total_seconds(td)}} : TRUE

\* datetime.timetuple()[:6]
timetuple(dt) == <<dt.year, dt.month, dt.day, dt.hour, dt.minute, dt.second>>

\* _get_formats(): formats, zero_formats or offset_formats with an entry for
\* each of the six levels (lines 627-628, 965-971)
_get_formats(self, fmts) ==
    IF self.kind = "ConciseTimedeltaFormatter" THEN <<<<>>, <<>>>> \o fmts ELSE fmts

\* _format_string(value, fmt), lines 860-861 and 983-984
_format_string(self, value, fmt) ==
    IF self.kind = "ConciseTimedeltaFormatter" THEN strftimedelta(value, fmt)
    ELSE strftime(value, fmt)

\* the level of lines 643-656 had the loop kept the last varying level it
\* meets instead of stopping at the first
LevelOf_coarsest(ticktuple) ==
    LET
        Unique(level) == {ticktuple[nn][level + 1] : nn \in DOMAIN ticktuple}
        Varying == {level \in 0..5 : Cardinality(Unique(level)) > 1}
    IN  IF Varying = {} THEN 5
        ELSE CHOOSE level \in Varying : \A l \in Varying : level <= l

\* the level the loop of lines 643-656 ends with
LevelOf(ticktuple) ==
    LET
        Unique(level) == {ticktuple[nn][level + 1] : nn \in DOMAIN ticktuple}
        Varying == {level \in 0..5 : Cardinality(Unique(level)) > 1}
    IN  IF Varying = {} THEN 5
        ELSE CHOOSE level \in Varying : \A l \in Varying : l <= level

\* the tests of lines 661-674 had every level its zero at 0
IsZeroTick_nought(self, value, tuple, level) ==
    IF level < 5 THEN tuple[level + 1] = 0
    ELSE IF self.kind = "ConciseTimedeltaFormatter"
    THEN \E s_t \in {total_seconds(value)} : divmod(s_t, 60).mod = FZero
    ELSE value.second = 0 /\ value.microsecond = 0

\* the tests of lines 661-674: the tick takes the zero format of the level
IsZeroTick(self, value, tuple, level) ==
    IF level < 5 THEN tuple[level + 1] = self._zerovals[level + 1]
    ELSE IF self.kind = "ConciseTimedeltaFormatter"
    THEN \E s_t \in {total_seconds(value)} : divmod(s_t, 60).mod = FZero
    ELSE value.second = 0 /\ value.microsecond = 0

\* lines 684-692 had every label with a point lost all the zeros it ends in
StripZeros_each(labels) ==
    LET HasPoint(s) == \E i \in DOMAIN s : s[i] = "."
    IN  [nn \in DOMAIN labels |->
            IF HasPoint(labels[nn]) THEN rstrip(rstrip(labels[nn], "0"), ".")
            ELSE labels[nn]]

\* lines 684-692: the zeros every label with a point ends in are cut off
StripZeros(labels) ==
    LET
        HasPoint(s) == \E i \in DOMAIN s : s[i] = "."
        Least(counts) == CHOOSE c \in counts : \A k \in counts : c <= k
        Cut(s, trailing_zeros) ==
            IF HasPoint(s) THEN rstrip(SubSeq(s, 1, Len(s) - trailing_zeros), ".") ELSE s
        Stripped(trailing_zeros) ==
            IF trailing_zeros > 0
            THEN [nn \in DOMAIN labels |-> Cut(labels[nn], trailing_zeros)]
            ELSE labels
        Pointed == {nn \in DOMAIN labels : HasPoint(labels[nn])}
    IN  IF Pointed = {} THEN labels
        ELSE Stripped(Least({Len(labels[nn]) - Len(rstrip(labels[nn], "0")) :
                                nn \in Pointed}))

\* lines 694-701 had the offset been taken from the first tick
OffsetOf_first(self, tickvalue, level, show_offset) ==
    IF show_offset
    THEN _format_string(self, tickvalue[1],
                        _get_formats(self, self.offset_formats)[level + 1])
    ELSE <<>>

\* lines 694-701 had the offset been appended to the one stored before
OffsetOf_accumulating(self, tickvalue, level, show_offset) ==
    IF show_offset
    THEN self.offset_string
            \o _format_string(self, tickvalue[Len(tickvalue)],
                              _get_formats(self, self.offset_formats)[level + 1])
    ELSE <<>>

\* lines 694-701: the offset string _format_ticks stores
OffsetOf(self, tickvalue, level, show_offset) ==
    IF show_offset
    THEN _format_string(self, tickvalue[Len(tickvalue)],
                        _get_formats(self, self.offset_formats)[level + 1])
    ELSE <<>>

\* _ConciseTimevalueFormatter._format_ticks(tickvalue, ticktuple), lines
\* 630-709, with usetex off: the labels, the offset string it stores, and the
\* level and the labels before the zeros are stripped
_format_ticks(self, tickvalue, ticktuple) ==
    LET
        \* lines 646-648: a 1 among the years or months of the ticks
        ShowOffset(level) ==
            self.show_offset
                /\ ~(level < 2 /\ \E nn \in DOMAIN ticktuple : ticktuple[nn][level + 1] = 1)
        Labelled(level, labels, offset_string) ==
            Result("ok", [labels |-> IF level >= 5 THEN StripZeros(labels) ELSE labels,
                          raw |-> labels, level |-> level,
                          tickvalue |-> tickvalue, ticktuple |-> ticktuple,
                          offset_string |-> offset_string])
    \* line 644 on the array of no ticks, which has one dimension
    IN  IF DOMAIN ticktuple = {} THEN Result("IndexError", None)
        ELSE CHOOSE r \in UNION
                {{Labelled(level, labels,
                           OffsetOf(self, tickvalue, level, ShowOffset(level))) :
                    \* lines 658-678
                    labels \in
                      {[nn \in DOMAIN ticktuple |->
                          CHOOSE s \in
                            {_format_string(self, tickvalue[nn], fmts[level + 1]) :
                               fmts \in
                                 {IF IsZeroTick(self, tickvalue[nn], ticktuple[nn], level)
                                  THEN _get_formats(self, self.zero_formats)
                                  ELSE _get_formats(self, self.formats)}} : TRUE]}} :
                 level \in {LevelOf(ticktuple)}} : TRUE

\* ConciseDateFormatter.format_ticks(values), lines 852-855, and
\* ConciseTimedeltaFormatter.format_ticks(values), lines 974-978: every value is
\* converted, then the ticks are formatted
format_ticks(values) ==
    LET
        IsDate == formatter.kind = "ConciseDateFormatter"
        Failed(rs) == {nn \in DOMAIN rs : rs[nn].kind # "ok"}
        FirstFailed(rs) == CHOOSE nn \in Failed(rs) : \A k \in Failed(rs) : nn <= k
    IN  /\ formatter # None
        /\ IF IsDate /\ values # <<>>
           THEN ReadEpoch /\ converted' = TRUE
           ELSE UNCHANGED <<_epoch, firstInit, converted>>
        /\ \E rs \in {[nn \in DOMAIN values |->
                         IF IsDate THEN _from_ordinalf(values[nn], _epoch')
                         ELSE num2timedelta(values[nn])]} :
           \E tickvalue \in {IF Failed(rs) # {} THEN <<>>
                             ELSE [nn \in DOMAIN rs |->
                                     IF IsDate THEN FromStamp(rs[nn].val) ELSE rs[nn].val]} :
           \E ticktuple \in {[nn \in DOMAIN tickvalue |->
                                IF IsDate THEN timetuple(tickvalue[nn])
                                ELSE _make_timetuple(tickvalue[nn])]} :
           \E r \in {IF Failed(rs) # {} THEN Result(rs[FirstFailed(rs)].kind, None)
                     ELSE _format_ticks(formatter, tickvalue, ticktuple)} :
                /\ formatter' = IF r.kind = "ok"
                                THEN [formatter EXCEPT !.offset_string = r.val.offset_string]
                                ELSE formatter
                /\ op' = Call("format_ticks", values, r.kind, r.val, None)
        /\ prev' = IF op.name = "format_ticks" THEN op ELSE None
        /\ UNCHANGED <<rcEpoch, epochRead, loc, rcParams>>

\* get_offset(), lines 711-712
get_offset(self) == self.offset_string

\* the float day + num / (den * 2^p2), in days
TickAt(day, num, den, p2) == FAdd(FFromNat(day), FDivBy(FFromNat(num), <<den>>, p2))

\* tick values of dates: none, one, days of one month from its first day on,
\* days across the end of a month, months from January on and from February
\* on, years, hours, and seconds with and without halves
DateTicks ==
    LET D(n) == FFromNat(Ordinal(2000, 1, 1) + n)
        S(num, p2) == TickAt(Ordinal(2000, 1, 1), num, 675, p2)
    IN  {<<>>, <<D(0)>>, <<D(0), D(1), D(2)>>, <<D(29), D(30), D(31)>>,
         <<D(0), D(31), D(60)>>, <<D(31), D(60), D(91)>>, <<D(0), D(366)>>,
         <<D(0), TickAt(Ordinal(2000, 1, 1), 1, 1, 2), TickAt(Ordinal(2000, 1, 1), 1, 1, 1)>>,
         <<S(1, 8), S(1, 7)>>, <<S(1, 7), S(1, 6)>>}

\* tick values of timedeltas: none, one, days, days below zero, hours, half
\* days, minutes, and seconds with and without halves
DeltaTicks ==
    LET D(n) == FFromNat(n)
        S(num, p2) == FDivBy(FFromNat(num), <<675>>, p2)
    IN  {<<>>, <<D(0)>>, <<D(0), D(1), D(2)>>, <<FNeg(D(1)), D(0), D(1)>>,
         <<D(0), TickAt(0, 1, 1, 2), TickAt(0, 1, 1, 1)>>,
         <<TickAt(1, 1, 1, 1), TickAt(2, 1, 1, 1)>>,
         <<D(0), S(30, 7), S(60, 7)>>,
         <<S(1, 8), S(1, 7)>>, <<S(1, 7), S(1, 6)>>}

\* a concise formatter is built and formats tick lists, one after another
NextFormatter ==
    \/ \E kind \in {"ConciseDateFormatter", "ConciseTimedeltaFormatter"},
          show_offset \in BOOLEAN :
            Formatter__init__(kind, None, None, None, show_offset)
    \/ \E values \in IF formatter = None THEN {}
                     ELSE IF formatter.kind = "ConciseDateFormatter" THEN DateTicks
                     ELSE DeltaTicks :
            format_ticks(values)

SpecFormatter == Init /\ [][NextFormatter]_vars

\* the formats, zero_formats and offset_formats arguments of a constructor:
\* None, or a list of no, four or six format strings
FormatLists == {None} \cup {By([i \in 1..n |-> <<"%d">>]) : n \in {0, 4, 6}}

\* concise formatters are built, one after another
NextConstruct ==
    \E kind \in {"ConciseDateFormatter", "ConciseTimedeltaFormatter"},
       formats \in FormatLists, offset_formats \in FormatLists,
       zero_formats \in FormatLists, show_offset \in BOOLEAN :
        Formatter__init__(kind, formats, offset_formats, zero_formats, show_offset)

SpecConstruct == Init /\ [][NextConstruct]_vars

\* strftimedelta(td, fmt_str) is called
Call_strftimedelta(td, fmt_str) ==
    /\ op' = Call("strftimedelta", <<td, fmt_str>>, "ok", strftimedelta(td, fmt_str), None)
    /\ Remember
    /\ UNCHANGED <<_epoch, rcEpoch, firstInit, converted, epochRead, loc, formatter, rcParams>>

\* -td, a datetime.timedelta: days, 0 <= sec < 86400, 0 <= us < 10^6
NegTimedelta(td) == ShiftStamp(Stamp(-td.day, 0, 0), -td.sec, -td.us)

\* timedeltas above zero: parts of a second, seconds, minutes, hours, days
PositiveDeltas ==
    {Stamp(0, 0, 300000), Stamp(0, 90, 0), Stamp(0, 3661, 1), Stamp(1, 43200, 0),
     Stamp(2, 0, 0), Stamp(3, 86399, 999999)}

\* the timedeltas strftimedelta is called with
Deltas == {Stamp(0, 0, 0)} \cup PositiveDeltas \cup {NegTimedelta(td) : td \in PositiveDeltas}

\* the format strings strftimedelta is called with
DeltaFormats ==
    {<<"%d">>, <<"%H">>, <<"%M">>, <<"%S">>, <<"%>H">>, <<"%>M">>, <<"%>S">>, <<"%f">>,
     <<"%>H", ":", "%M">>, <<"%-S", ".", "%f">>,
     <<"%d", " ", "d", " ", "%-H", ":", "%M", ":", "%S">>}

NextStrftimedelta ==
    \E td \in Deltas, fmt_str \in DeltaFormats : Call_strftimedelta(td, fmt_str)

SpecStrftimedelta == Init /\ [][NextStrftimedelta]_vars

\* a converter: DateConverter(interval_multiples), lines 2202-2204,
\* ConciseDateConverter(formats, zero_formats, offset_formats, show_offset,
\* interval_multiples), lines 2256-2263, TimedeltaConverter(),
\* ConciseTimedeltaConverter(...), lines 2313-2320, and the two registered
\* switching converters, which keep nothing
Converter(kind, formats, zero_formats, offset_formats, show_offset, interval_multiples) ==
    IF kind \in {"ConciseDateConverter", "ConciseTimedeltaConverter"}
    THEN [kind |-> kind, _formats |-> formats, _zero_formats |-> zero_formats,
          _offset_formats |-> offset_formats, _show_offset |-> show_offset,
          _interval_multiples |-> interval_multiples]
    ELSE IF kind = "DateConverter"
    THEN [kind |-> kind, _interval_multiples |-> interval_multiples]
    ELSE [kind |-> kind]

\* _get_converter() of a switching converter had it kept the converter class
\* it found in the configuration when it was registered
_get_converter_registered(self) ==
    IF self.kind = "_SwitchableDateConverter"
    THEN Converter("DateConverter", None, None, None, TRUE, rcParams.interval_multiples)
    ELSE Converter("TimedeltaConverter", None, None, None, TRUE, TRUE)

\* _SwitchableDateConverter._get_converter(), lines 2355-2361, and
\* _SwitchableTimedeltaConverter._get_converter(), lines 2379-2384
_get_converter(self) ==
    IF self.kind = "_SwitchableDateConverter"
    THEN Converter(IF rcParams.converter = "concise" THEN "ConciseDateConverter"
                   ELSE "DateConverter",
                   None, None, None, TRUE, rcParams.interval_multiples)
    ELSE Converter(IF rcParams.converter = "concise" THEN "ConciseTimedeltaConverter"
                   ELSE "TimedeltaConverter",
                   None, None, None, TRUE, TRUE)

\* axisinfo(unit, axis) of a converter had every date locator been built with
\* the default interval_multiples
AxisInfo_default(self) ==
    LET
        Info(majloc, majfmt) ==
            IF majfmt.kind = "ok"
            THEN Result("ok", [majloc |-> majloc, majfmt |-> majfmt.val])
            ELSE Result(majfmt.kind, None)
    IN  CASE self.kind = "DateConverter" ->
                Info(AutoDateLocator(5, None, TRUE),
                     Result("ok", [kind |-> "AutoDateFormatter"]))
          [] self.kind = "ConciseDateConverter" ->
                Info(AutoDateLocator(5, None, TRUE),
                     ConciseDateFormatter(self._formats, self._offset_formats,
                                          self._zero_formats, self._show_offset))
          [] self.kind = "TimedeltaConverter" ->
                Info(AutoTimedeltaLocator(5),
                     Result("ok", [kind |-> "AutoTimedeltaFormatter"]))
          [] self.kind = "ConciseTimedeltaConverter" ->
                Info(AutoTimedeltaLocator(5),
                     ConciseTimedeltaFormatter(self._formats, self._offset_formats,
                                               self._zero_formats, self._show_offset))

\* axisinfo(unit, axis) of a converter: the major locator and the major
\* formatter (lines 2206-2220, 2265-2275, 2286-2297, 2322-2331)
AxisInfo(self) ==
    LET
        Info(majloc, majfmt) ==
            IF majfmt.kind = "ok"
            THEN Result("ok", [majloc |-> majloc, majfmt |-> majfmt.val])
            ELSE Result(majfmt.kind, None)
    IN  CASE self.kind = "DateConverter" ->
                Info(AutoDateLocator(5, None, self._interval_multiples),
                     Result("ok", [kind |-> "AutoDateFormatter"]))
          [] self.kind = "ConciseDateConverter" ->
                Info(AutoDateLocator(5, None, self._interval_multiples),
                     ConciseDateFormatter(self._formats, self._offset_formats,
                                          self._zero_formats, self._show_offset))
          [] self.kind = "TimedeltaConverter" ->
                Info(AutoTimedeltaLocator(5),
                     Result("ok", [kind |-> "AutoTimedeltaFormatter"]))
          [] self.kind = "ConciseTimedeltaConverter" ->
                Info(AutoTimedeltaLocator(5),
                     ConciseTimedeltaFormatter(self._formats, self._offset_formats,
                                               self._zero_formats, self._show_offset))

\* the converter is one of the two registered switching converters
IsSwitchable(self) ==
    self.kind \in {"_SwitchableDateConverter", "_SwitchableTimedeltaConverter"}

\* axisinfo(unit, axis) is called on a converter; a switching converter
\* hands the call to the converter of _get_converter() (lines 2339-2340)
axisinfo(self) ==
    /\ \E r \in {AxisInfo(IF IsSwitchable(self) THEN _get_converter(self) ELSE self)} :
          op' = Call("axisinfo", self, r.kind, r.val, None)
    /\ Remember
    /\ UNCHANGED <<_epoch, rcEpoch, firstInit, converted, epochRead, loc, formatter, rcParams>>

\* rcParams[key] = value for date.converter or date.interval_multiples
rcParams__setitem__(key, value) ==
    /\ rcParams' = [rcParams EXCEPT ![key] = value]
    /\ op' = Call("rcParams", <<key, value>>, "ok", None, None)
    /\ Remember
    /\ UNCHANGED <<_epoch, rcEpoch, firstInit, converted, epochRead, loc, formatter>>

\* the converters axisinfo is called on: the registered ones, and converters
\* built with either interval_multiples, with or without the offset, and
\* with default formats or six offset formats
Converters ==
    {Converter(kind, None, None, None, TRUE, TRUE) :
        kind \in {"_SwitchableDateConverter", "_SwitchableTimedeltaConverter",
                  "TimedeltaConverter"}}
        \cup {Converter("DateConverter", None, None, None, TRUE, m) : m \in BOOLEAN}
        \cup {Converter(kind, None, None, f, show, m) :
                kind \in {"ConciseDateConverter", "ConciseTimedeltaConverter"},
                f \in {None, By([i \in 1..6 |-> <<"%d">>])},
                show \in BOOLEAN, m \in BOOLEAN}

\* the configuration is changed and axisinfo is called, in any order
NextConverter ==
    \/ \E value \in {"auto", "concise"} : rcParams__setitem__("converter", value)
    \/ \E value \in BOOLEAN : rcParams__setitem__("interval_multiples", value)
    \/ \E self \in Converters : axisinfo(self)

SpecConverter == Init /\ [][NextConverter]_vars

\* the locator classes whose constructor takes an interval; the base of a
\* YearLocator is its interval
IntervalLocators ==
    {"YearLocator", "MonthLocator", "WeekdayLocator", "DayLocator", "HourLocator",
     "MinuteLocator", "SecondLocator", "MicrosecondLocator", "TimedeltaLocator"}

\* an interval is given in halves (h stands for h / 2), from -1 on; the
\* greatest one a constructor is called with
MaxHalves == 6

\* the ways the constructor of a locator class can end for an interval of h
\* halves.  DayLocator tests the interval itself (lines 1833-1834).
\* MicrosecondLocator and TimedeltaLocator build a ticker.MultipleLocator
\* (lines 1956, 2031-2032) and YearLocator a ticker._Edge_integer (line
\* 1745), which raise ValueError for a step that is not above 0.  The other
\* classes, and YearLocator before its test, hand the interval to
\* dateutil.rrule (lines 1216, 1743-1744, 1789-1790, 1815-1816, 1864-1865,
\* 1889-1890, 1913), which is free to take or to refuse a value that is not a
\* whole number above 0.
Constructed(kind, h) ==
    LET
        IsPositiveInt == h % 2 = 0 /\ h >= 2
        rrule == IF IsPositiveInt THEN {"ok"} ELSE {"ok", "ValueError", "TypeError"}
        _Edge_integer == IF h <= 0 THEN {"ValueError"} ELSE {"ok"}
    IN  CASE kind = "DayLocator" -> IF IsPositiveInt THEN {"ok"} ELSE {"ValueError"}
          [] kind \in {"MicrosecondLocator", "TimedeltaLocator"} -> _Edge_integer
          [] kind = "YearLocator" ->
                (rrule \ {"ok"}) \cup (IF "ok" \in rrule THEN _Edge_integer ELSE {})
          [] OTHER -> rrule

\* the constructor of a locator class is called with an interval
Locator__init__(kind, h) ==
    /\ \E outcome \in Constructed(kind, h) : op' = Call(kind, h, outcome, None, None)
    /\ Remember
    /\ UNCHANGED <<_epoch, rcEpoch, firstInit, converted, epochRead, loc, formatter, rcParams>>

\* locators are built with intervals, one after another
NextIntervals ==
    \E kind \in IntervalLocators, h \in -2..MaxHalves : Locator__init__(kind, h)

SpecIntervals == Init /\ [][NextIntervals]_vars

\* locator.intervald[freq] = list, the way the class documents to configure
\* the intervals of a frequency
intervald__setitem__(freq, list) ==
    /\ loc # None
    /\ loc' = [loc EXCEPT !.intervald[freq] = list]
    /\ op' = Call("intervald__setitem__", <<freq, list>>, "ok", None, None)
    /\ Remember
    /\ UNCHANGED <<_epoch, rcEpoch, firstInit, converted, epochRead, formatter, rcParams>>

\* the interval lists a frequency is configured with
IntervalLists ==
    {<<HOURLY, <<7>>>>, <<HOURLY, <<14>>>>, <<MINUTELY, <<7>>>>, <<DAILY, <<3>>>>}

\* views of 71, 50 and 5 days, of 36 hours, of 2 years, of 90 minutes and of
\* 65 seconds
IntervaldViews ==
    {<<Day(2001, 1, 16), Day(2001, 3, 28)>>,
     <<Day(2001, 1, 16), Day(2001, 3, 7)>>,
     <<Day(2001, 1, 1), Day(2001, 1, 6)>>,
     <<Day(2001, 1, 1), datetime(2001, 1, 2, 12, 0, 0, 0)>>,
     <<Day(2010, 1, 1), Day(2012, 1, 1)>>,
     <<Day(2001, 1, 1), datetime(2001, 1, 1, 1, 30, 0, 0)>>,
     <<datetime(2000, 12, 31, 23, 59, 40, 0), datetime(2001, 1, 1, 0, 0, 45, 0)>>}

\* an auto locator is built, its interval lists are configured and views are
\* ticked
NextIntervald ==
    \/ \E m \in BOOLEAN : AutoDateLocator__init__(5, None, m)
    \/ \E c \in IntervalLists : intervald__setitem__(c[1], c[2])
    \/ \E v \in IntervaldViews : tick_values(v[1], v[2])

SpecIntervald == Init /\ [][NextIntervald]_vars

\* AutoTimedeltaLocator(minticks).update_from_limits(dmin, dmax)
Call_update_from_limits(minticks, dmin, dmax) ==
    /\ op' = Call("update_from_limits", <<minticks, dmin, dmax>>, "ok",
                  update_from_limits(AutoTimedeltaLocator(minticks), dmin, dmax), None)
    /\ Remember
    /\ UNCHANGED <<_epoch, rcEpoch, firstInit, converted, epochRead, loc, formatter, rcParams>>

\* the limits of a timedelta axis: no time, microseconds, seconds, minutes,
\* hours with and without whole days, and days
Limits ==
    {Stamp(0, 0, 0), Stamp(0, 0, 6), Stamp(0, 0, 300000), Stamp(0, 7, 0),
     Stamp(0, 90, 0), Stamp(0, 3000, 0), Stamp(0, 18000, 0), Stamp(0, 43200, 0),
     Stamp(1, 0, 0), Stamp(1, 43200, 0), Stamp(2, 3600, 0), Stamp(4, 86399, 999999),
     Stamp(5, 0, 0), Stamp(30, 0, 0), Stamp(400, 0, 0)}

NextTimedelta ==
    \E minticks \in {3, 5, 30}, dmin \in {Stamp(0, 0, 0), Stamp(1, 0, 0), Stamp(0, 90, 0)},
       dmax \in Limits :
        Call_update_from_limits(minticks, dmin, dmax)

SpecTimedelta == Init /\ [][NextTimedelta]_vars



(***************************************************************************)
(* The epoch lifecycle (Spec).  The histories firstInit, converted and     *)
(* epochRead cover the calls since the cell was last reset (or since       *)
(* import).                                                                *)
(***************************************************************************)
\* C1: a set_epoch call made when the epoch cell is already initialized
\* raises RuntimeError and leaves the cell as it is, and every get_epoch
\* returns the value the cell was first initialized with since it was last
\* reset.
C1_SetEpochTwiceRaises ==
    /\ [][(op'.name = "set_epoch" /\ _epoch # None)
              => (op'.kind = "RuntimeError" /\ _epoch' = _epoch)]_vars
    /\ [](op.name = "get_epoch" => op.val = firstInit)

\* a second set_epoch, with another value, after a first one and nothing else
C1_Witness ==
    /\ op.name = "set_epoch" /\ op.kind = "RuntimeError"
    /\ ~converted /\ ~epochRead
    /\ _epoch # None /\ _epoch = firstInit /\ op.arg # _epoch

\* C2: after a date has been converted by date2num or num2date (which
\* initializes the cell from the configured default when it is unset) every
\* set_epoch raises RuntimeError; a set_epoch raises only when a date
\* conversion, a get_epoch or a successful set_epoch has come before it.
C2_SetEpochBeforeConversion ==
    [][op'.name = "set_epoch"
         => /\ converted => (op'.kind = "RuntimeError" /\ _epoch' = _epoch)
            /\ (~converted /\ ~epochRead /\ firstInit = None)
                  => (op'.kind = "ok" /\ _epoch' = op'.arg)]_vars

\* set_epoch refused right after a date2num that took the default epoch
C2_Witness ==
    /\ op.name = "set_epoch" /\ op.kind = "RuntimeError"
    /\ converted /\ ~epochRead
    /\ prev # None /\ prev.name = "date2num"
    /\ _epoch = rcEpoch /\ op.arg # _epoch

(***************************************************************************)
(* The codec (SpecCodec).                                                  *)
(***************************************************************************)
Abs(n) == IF n < 0 THEN -n ELSE n

\* v is a datetime (years 1..9999) within a hundred years of the epoch
Within100Years(v, epoch) ==
    /\ v.day \in MinOrdinal..(EndOrdinal - 1)
    /\ Abs(v.day - epoch.day) < 100 * 365

\* the distance of two timestamps is at most k microseconds
WithinMicros(a, b, k) == BCmp(SSub(MicrosOf(a), MicrosOf(b)).m, BFromNat(k)) <= 0

\* the last two calls encoded v1 and then v2 > v1, of the same kind
EncodedInOrder ==
    /\ prev # None /\ IsEncode(op) /\ prev.name = op.name
    /\ Earlier(prev.arg, op.arg)

\* C3: num2date(date2num(v)) is within 20 microseconds of v, for every
\* datetime v within a hundred years of the epoch.
C3_RoundTrip ==
    (op.name = "num2date" /\ op.src # None /\ Within100Years(op.src, _epoch))
        => (op.kind = "ok" /\ WithinMicros(op.val, op.src, 20))

\* C4: date2num of the instant of the epoch in use is exactly 0.0.
C4_EpochEncodesToZero ==
    (op.name = "date2num" /\ op.arg = _epoch) => op.val = FZero

\* C5 as stated: v1 < v2 of the same kind encode to strictly increasing
\* numbers.
C5_StrictlyMonotonic == EncodedInOrder => FCmp(prev.val, op.val) < 0

\* C5: v1 < v2 of the same kind (two datetimes under one epoch, or two
\* timedeltas) never encode to decreasing numbers: date2num(v1) <=
\* date2num(v2) and timedelta2num(v1) <= timedelta2num(v2).
C5_WeaklyMonotonic == EncodedInOrder => FCmp(prev.val, op.val) <= 0

\* two values a microsecond apart that encode to the same number
C5_Witness == EncodedInOrder /\ prev.val = op.val

\* C6: num2date of a finite number returns a datetime of the years 1..9999
\* or raises ValueError, and nothing else.
C6_OnlyRangeError ==
    op.name = "num2date"
        => \/ op.kind = "ValueError"
           \/ op.kind = "ok" /\ op.val.day \in MinOrdinal..(EndOrdinal - 1)

(***************************************************************************)
(* AutoDateLocator: the number of ticks, the frequency and the interval.   *)
(***************************************************************************)
AfterTickValues == op.name = "tick_values"

\* the last call ticked a view with a locator built with the defaults
\* minticks=5, maxticks=None, interval_multiples=True
DefaultSettings ==
    /\ loc.minticks = 5
    /\ loc.interval_multiples
    /\ \A f \in DOMAIN loc.maxticks :
          loc.maxticks[f] = IF f \in {MONTHLY, HOURLY} THEN 12
                            ELSE IF f = MICROSECONDLY THEN 8 ELSE 11

\* the order get_locator walks the frequencies in, coarsest first
WalkOrder == <<YEARLY, MONTHLY, DAILY, HOURLY, MINUTELY, SECONDLY, MICROSECONDLY>>

\* the count of the j-th frequency of the walk is below minticks
BelowMinticks(j) == SCmp(op.val.nums[j], SFromInt(loc.minticks)) < 0

\* the count of the selected frequency is at most k * (maxticks[freq] - 1)
Fits(k) ==
    SCmp(op.val.nums[op.val.i],
         SFromInt(k * (loc.maxticks[op.val._freq] - 1))) <= 0

IntervalList == loc.intervald[op.val._freq]

\* C7: for a view with vmin # vmax, the number of ticks the auto locator
\* returns is at least minticks and at most maxticks of the selected
\* frequency, unless the two-point fallback <<vmin, vmax>> was returned.
C7_TickCountBound ==
    (/\ AfterTickValues
     /\ op.arg[1] # op.arg[2]
     /\ op.val.selected
     /\ ~op.val.fallback)
        => /\ Len(op.val.ticks) >= loc.minticks
           /\ Len(op.val.ticks) <= loc.maxticks[op.val._freq]

\* C8: the frequency get_locator selects is the first of Yearly, Monthly,
\* Daily, Hourly, Minutely, Secondly, Microsecondly whose count is at least
\* minticks: its count is not below minticks, the count of every coarser
\* frequency is, none is selected only when every count is below minticks,
\* and the frequency is never Weekly.
C8_CoarsestFrequencyWithMinticks ==
    AfterTickValues =>
        /\ op.val.selected =>
              \E j \in 0..6 :
                  /\ op.val._freq = WalkOrder[j + 1]
                  /\ ~BelowMinticks(j)
                  /\ \A k \in 0..(j - 1) : BelowMinticks(k)
        /\ ~op.val.selected => \A j \in 0..6 : BelowMinticks(j)
        /\ op.val._freq # WEEKLY
        /\ loc._freq = op.val._freq

\* Daily was selected for a view of 71 days, which has 0 whole years and 2
\* whole months
C8_Witness ==
    /\ AfterTickValues
    /\ op.val.selected
    /\ op.val._freq = DAILY
    /\ loc.minticks = 5
    /\ op.val.nums[0] = SFromInt(0)
    /\ op.val.nums[1] = SFromInt(2)
    /\ op.val.nums[2] = SFromInt(71)

\* C9: the interval chosen for the selected frequency is the first k of its
\* interval list, in ascending order, with count <= k * (maxticks[freq] - 1),
\* and then there is no warning; when no k of the list satisfies the bound,
\* the largest element of the list is chosen, with a warning unless the
\* frequency is Daily and interval_multiples is enabled.
C9_FirstFittingInterval ==
    (AfterTickValues /\ op.val.selected) =>
        IF \E n \in DOMAIN IntervalList : Fits(IntervalList[n])
        THEN \E n \in DOMAIN IntervalList :
                /\ Fits(IntervalList[n])
                /\ \A m \in 1..(n - 1) :
                      /\ ~Fits(IntervalList[m])
                      /\ IntervalList[m] < IntervalList[n]
                /\ op.val.interval = IntervalList[n]
                /\ ~op.val.warned
        ELSE /\ \E n \in DOMAIN IntervalList : op.val.interval = IntervalList[n]
             /\ \A n \in DOMAIN IntervalList : IntervalList[n] <= op.val.interval
             /\ op.val.warned
                  <=> ~(op.val._freq = DAILY /\ loc.interval_multiples)

\* no interval of the Daily list fits 71 days with maxticks 3, interval
\* multiples are enabled, and 14 was chosen without a warning
C9_Witness ==
    /\ AfterTickValues
    /\ op.val.selected
    /\ op.val._freq = DAILY
    /\ loc.interval_multiples
    /\ loc.maxticks[DAILY] = 3
    /\ op.val.nums[2] = SFromInt(71)
    /\ op.val.interval = 14
    /\ ~op.val.warned

\* a view of exactly 2 calendar years at day granularity: from midnight of a
\* day to midnight of the same day 2 years later, or from Jan 1 to Dec 31 of
\* the next year
TwoCalendarYears ==
    /\ AfterTickValues
    /\ DefaultSettings
    /\ op.arg[1] = Day(op.arg[1].year, op.arg[1].month, op.arg[1].day)
    /\ \/ op.arg[2] = [op.arg[1] EXCEPT !.year = @ + 2]
       \/ /\ op.arg[1].month = 1 /\ op.arg[1].day = 1
          /\ op.arg[2] = Day(op.arg[1].year + 1, 12, 31)

FirstOfQuarter(d) ==
    /\ d.month \in {1, 4, 7, 10}
    /\ d = Day(d.year, d.month, 1)

InView(d) == ~Before(d, op.arg[1]) /\ ~Before(op.arg[2], d)

\* C10 as stated: for a view of exactly 2 calendar years the default locator
\* selects Yearly with interval 1 and ticks on Jan 1 of each year of the view.
C10_TwoYearsTickedYearly ==
    TwoCalendarYears =>
        /\ op.val._freq = YEARLY
        /\ op.val.interval = 1
        /\ \A k \in DOMAIN op.val.dates :
              op.val.dates[k] = Day(op.val.dates[k].year, 1, 1)
        /\ \A y \in op.arg[1].year..op.arg[2].year :
              InView(Day(y, 1, 1))
                 => \E k \in DOMAIN op.val.dates : op.val.dates[k] = Day(y, 1, 1)

\* C10, amended: for a view of exactly 2 calendar years the default locator
\* selects Monthly (2 whole years are fewer than minticks = 5) with interval
\* 3, and its ticks are the first days of January, April, July and October
\* in the view.
C10_TwoYearsTickedQuarterly ==
    TwoCalendarYears =>
        /\ op.val.selected
        /\ op.val._freq = MONTHLY
        /\ op.val.interval = 3
        /\ ~op.val.fallback
        /\ Len(op.val.ticks) = Len(op.val.dates)
        /\ \A k \in DOMAIN op.val.dates :
              FirstOfQuarter(op.val.dates[k]) /\ InView(op.val.dates[k])
        /\ \A y \in op.arg[1].year..op.arg[2].year, m \in {1, 4, 7, 10} :
              InView(Day(y, m, 1))
                 => \E k \in DOMAIN op.val.dates : op.val.dates[k] = Day(y, m, 1)

\* the view from 2010-01-01 to 2012-01-01 was ticked: 9 ticks, from
\* 2010-01-01 to 2012-01-01
C10_Witness ==
    /\ TwoCalendarYears
    /\ op.arg[1] = Day(2010, 1, 1)
    /\ op.arg[2] = Day(2012, 1, 1)
    /\ op.val.nums[0] = SFromInt(2)
    /\ op.val.nums[1] = SFromInt(24)
    /\ Len(op.val.ticks) = 9
    /\ op.val.dates[1] = Day(2010, 1, 1)
    /\ op.val.dates[2] = Day(2010, 4, 1)
    /\ op.val.dates[9] = Day(2012, 1, 1)

(***************************************************************************)
(* YearLocator and RRuleLocator (SpecLocator).                             *)
(***************************************************************************)
\* C11: when Yearly is selected with interval multiples, the YearLocator of
\* base b that ticks the view puts every tick on a year that is a multiple
\* of b, whatever the year of vmin
C11_YearTicksOnMultiples ==
    AfterTickValues /\ op.val.locator.kind = "YearLocator"
        => \A k \in DOMAIN op.val.dates :
               op.val.dates[k].year % op.val.locator.interval = 0

\* t is a position of the rule, read off the fields of t: no microsecond,
\* every by* argument allows it, its period is a whole number of intervals
\* after the period of dtstart, and it lies in [dtstart, until]
IsPosition(rule, t) ==
    /\ t.microsecond = 0
    /\ ByAllows(rule.bymonth, t.month)
    /\ ByAllows(rule.bymonthday, t.day)
    /\ ByAllows(rule.byhour, t.hour)
    /\ ByAllows(rule.byminute, t.minute)
    /\ ByAllows(rule.bysecond, t.second)
    /\ (PeriodOf(rule.freq, t, ToStamp(rule.dtstart).day)
            - PeriodOf(rule.freq, rule.dtstart, ToStamp(rule.dtstart).day))
          % rule.interval = 0
    /\ ~Before(t, [rule.dtstart EXCEPT !.microsecond = 0])
    /\ ~Before(rule.until, t)

\* a tick_values call that the locator handed to a rule
AfterRuleTickValues ==
    AfterTickValues /\ op.val.locator.kind # "MicrosecondLocator"

\* the rule of that call as _create_rrule set it, with the range it is
\* evaluated over
RuleOfCall == _create_rrule(op.val.locator, op.arg[1], op.arg[2])

InRange(t, start, stop) == ~Before(t, start) /\ ~Before(stop, t)

\* C12: RRuleLocator.tick_values returns the positions of its rule in the
\* inclusive range [start, stop], in order, as axis numbers; when the rule
\* has no position there, and only then, it returns the two ticks vmin, vmax
C12_RulePositionsOrTwoPoints ==
    AfterRuleTickValues =>
        /\ op.val.fallback <=> Len(op.val.dates) = 0
        /\ op.val.fallback
              => op.val.ticks = Date2NumList(<<op.arg[1], op.arg[2]>>, _epoch)
        /\ ~op.val.fallback => op.val.ticks = Date2NumList(op.val.dates, _epoch)
        /\ \A k \in DOMAIN op.val.dates :
              /\ IsPosition(RuleOfCall.rule, op.val.dates[k])
              /\ InRange(op.val.dates[k], RuleOfCall.start, RuleOfCall.stop)
              /\ k > 1 => Before(op.val.dates[k - 1], op.val.dates[k])
        /\ \A t \in {RuleOfCall.start, RuleOfCall.stop} :
              IsPosition(RuleOfCall.rule, t)
                  /\ InRange(t, RuleOfCall.start, RuleOfCall.stop)
                  => t \in Elements(op.val.dates)
        /\ op.val.dates = between(RuleOfCall.rule, RuleOfCall.start, RuleOfCall.stop)

\* a view given in descending order: the rule has no position and the two
\* ticks are the ends of the view
C12_Witness ==
    /\ AfterRuleTickValues
    /\ Before(op.arg[2], op.arg[1])
    /\ op.val.fallback
    /\ Len(op.val.ticks) = 2

(***************************************************************************)
(* Calling a locator on an axis (SpecAxis).                                 *)
(***************************************************************************)
AfterCall == op.name = "__call__"

\* the view interval of the call has an end that num2date does not convert
\* under the epoch in force
NotConvertible ==
    viewlim_to_dt(op.arg[2], op.arg[3], _epoch).kind # "ok"

\* C13: a date locator called on an axis whose view interval cannot be
\* converted to dates returns an empty list of ticks and does not raise
C13_EmptyTicksWhenNotConvertible ==
    AfterCall /\ NotConvertible => op.kind = "ok" /\ op.val = <<>>

(***************************************************************************)
(* nonsingular (SpecNonsingular).                                          *)
(***************************************************************************)
AfterNonsingular == op.name = "nonsingular"

BothFinite == isfinite(op.arg[2]) /\ isfinite(op.arg[3])

IsTimedeltaLocator(l) == l.kind \in {"TimedeltaLocator", "AutoTimedeltaLocator"}

\* the axis number of a calendar day under the epoch in force
DayNumber(y, m, d) == _timevalue2num(At(y, m, d, 0, 0, 0, 0), FALSE, _epoch)

\* C14: nonsingular with a bound that is not finite returns the default
\* range of the locator and does not raise: 1970-01-01 to 1970-01-02 for a
\* date locator, 0 to 1 day for a timedelta locator
C14_DefaultRangeWhenNotFinite ==
    AfterNonsingular /\ ~BothFinite =>
        /\ op.kind = "ok"
        /\ op.val = IF IsTimedeltaLocator(op.arg[1]) THEN <<FZero, FFromNat(1)>>
                    ELSE <<DayNumber(1970, 1, 1), DayNumber(1970, 1, 2)>>

\* the bounds of the call in ascending order
Lower == IF FCmp(op.arg[3], op.arg[2]) < 0 THEN op.arg[3] ELSE op.arg[2]
Upper == IF FCmp(op.arg[3], op.arg[2]) < 0 THEN op.arg[2] ELSE op.arg[3]

\* the locator of the call, an AutoTimedeltaLocator with the frequency and
\* interval its nonsingular sets from the bounds
Receiver ==
    IF op.arg[1].kind = "AutoTimedeltaLocator"
    THEN update_from_limits(op.arg[1], num2timedelta(op.arg[2]).val,
                            num2timedelta(op.arg[3]).val)
    ELSE op.arg[1]

\* 2 * unit * interval of the locator of the call
TwoUnits ==
    FMul(FMul(FFromNat(2), _get_unit(Receiver)), FFromNat(_get_interval(Receiver)))

\* C15: nonsingular with finite bounds returns them in ascending order,
\* moved apart by 2 * unit * interval on each side when they are closer than
\* 1e-6 and unchanged otherwise, for every locator
C15_OrderedAndWidened ==
    AfterNonsingular /\ BothFinite =>
        /\ op.kind = "ok"
        /\ op.val = IF FCmp(FSub(Upper, Lower), FDivBy(FFromNat(1), <<15625>>, 6)) < 0
                    THEN <<FSub(Lower, TwoUnits), FAdd(Upper, TwoUnits)>>
                    ELSE <<Lower, Upper>>

(***************************************************************************)
(* The concise formatters (SpecFormatter).                                 *)
(***************************************************************************)
\* a format_ticks call that returned its labels
AfterFormatTicks == op.name = "format_ticks" /\ op.kind = "ok"

\* the levels (0 years .. 5 seconds) at which the ticks of the call differ
VaryingLevels ==
    {level \in 0..5 : \E a, b \in DOMAIN op.val.ticktuple :
                          op.val.ticktuple[a][level + 1] # op.val.ticktuple[b][level + 1]}

\* C16 as stated: the active level is the coarsest level at which the tick
\* values are not all identical, and the seconds level when all six levels
\* are identical across the ticks
C16_CoarsestVaryingLevel ==
    AfterFormatTicks =>
        op.val.level = IF VaryingLevels = {} THEN 5
                       ELSE CHOOSE level \in VaryingLevels : \A l \in VaryingLevels : level <= l

\* C16 amended: for one or more ticks the active level is the finest level at
\* which the tick values are not all identical, and the seconds level when
\* all six levels are identical across the ticks
C16_FinestVaryingLevel ==
    AfterFormatTicks =>
        op.val.level = IF VaryingLevels = {} THEN 5
                       ELSE CHOOSE level \in VaryingLevels : \A l \in VaryingLevels : l <= level

\* ticks that differ in the month and in the day are labelled at the days
C16_Witness ==
    AfterFormatTicks /\ VaryingLevels = {1, 2} /\ op.val.level = 2

IsDateFormatter == formatter.kind = "ConciseDateFormatter"

\* tick nn of the call has the canonical zero of the active level: month 1,
\* day 1, hour 0, minute 0, or second and microsecond 0 for a date (no year
\* is a zero), and 0 for a timedelta
AtCanonicalZero(nn) ==
    LET value == op.val.ticktuple[nn][op.val.level + 1]
    IN  IF ~IsDateFormatter THEN value = (IF op.val.level = 5 THEN FZero ELSE 0)
        ELSE IF op.val.level = 5
        THEN value = 0 /\ op.val.tickvalue[nn].microsecond = 0
        ELSE op.val.level > 0 /\ value = (IF op.val.level \in {1, 2} THEN 1 ELSE 0)

\* the format of tick nn by the rule of the zeros
FormatByZero(nn) ==
    _get_formats(formatter, IF AtCanonicalZero(nn) THEN formatter.zero_formats
                            ELSE formatter.formats)[op.val.level + 1]

\* the ticks of the call share year and month and differ in the day only, and
\* the date formatter has its default formats
DifferInDayOnly ==
    /\ IsDateFormatter /\ VaryingLevels = {2}
    /\ [formatter EXCEPT !.offset_string = <<>>]
          = ConciseDateFormatter(None, None, None, formatter.show_offset).val

\* C17: every tick is formatted with the zero format of the active level
\* when its value at the active level is the canonical zero of the level and
\* with the normal format of the level otherwise; ticks of a date formatter
\* with default formats that differ in the day only are labelled with the day
\* alone, or the month for day 1, and year and month make the offset
C17_ZeroFormatAtCanonicalZero ==
    AfterFormatTicks =>
        /\ \A nn \in DOMAIN op.val.raw :
              op.val.raw[nn] = _format_string(formatter, op.val.tickvalue[nn], FormatByZero(nn))
        /\ DifferInDayOnly =>
              /\ \A nn \in DOMAIN op.val.labels :
                    op.val.labels[nn] =
                        strftime(op.val.tickvalue[nn],
                                 IF op.val.tickvalue[nn].day = 1 THEN <<"%b">> ELSE <<"%d">>)
              /\ formatter.show_offset =>
                    formatter.offset_string =
                        strftime(op.val.tickvalue[1], <<"%Y", "-", "%b">>)

\* days of one month from its first day on, formatted with the offset shown
C17_Witness ==
    /\ AfterFormatTicks /\ DifferInDayOnly /\ formatter.show_offset
    /\ \E a, b \in DOMAIN op.val.ticktuple : AtCanonicalZero(a) /\ ~AtCanonicalZero(b)

\* the labels of the call, before the cleanup, that hold a decimal point
WithPoint == {nn \in DOMAIN op.val.raw : \E i \in DOMAIN op.val.raw[nn] : op.val.raw[nn][i] = "."}

\* the number of zero digits s ends in
TrailingZeros(s) ==
    CHOOSE k \in 0..Len(s) :
        /\ \A i \in (Len(s) - k + 1)..Len(s) : s[i] = "0"
        /\ k < Len(s) => s[Len(s) - k] # "0"

\* the least number of trailing zeros among the labels with a point
CommonZeros ==
    CHOOSE k \in {TrailingZeros(op.val.raw[nn]) : nn \in WithPoint} :
        \A nn \in WithPoint : k <= TrailingZeros(op.val.raw[nn])

\* s without its last k characters, and without the point this bares
WithoutZeros(s, k) ==
    IF Len(s) > k /\ s[Len(s) - k] = "." THEN SubSeq(s, 1, Len(s) - k - 1)
    ELSE SubSeq(s, 1, Len(s) - k)

\* the labels follow the rule of the cleanup
CleanedUp ==
    \A nn \in DOMAIN op.val.labels :
        op.val.labels[nn] = IF nn \in WithPoint THEN WithoutZeros(op.val.raw[nn], CommonZeros)
                            ELSE op.val.raw[nn]

\* the call formats the timedeltas of 0.5 s and 1.0 s
HalfAndWholeSecond ==
    /\ ~IsDateFormatter
    /\ op.arg = <<FDivBy(FFromNat(1), <<675>>, 8), FDivBy(FFromNat(1), <<675>>, 7)>>

\* C18 as stated: at the seconds level the least number of trailing zeros
\* among the labels with a point is cut from each of them, then a bare
\* point, and the labels of 0.5 s and 1.0 s come out as "0.5" and "1"
C18_HalfAndOne ==
    AfterFormatTicks /\ op.val.level = 5 =>
        /\ CleanedUp
        /\ HalfAndWholeSecond => op.val.labels = <<<<"0", ".", "5">>, <<"1">>>>

\* C18 amended: at the seconds level the least number of trailing zeros
\* among the labels with a point is cut from each of them, then a bare
\* point, and the labels of 0.5 s and 1.0 s, formatted as "0.500000" and
\* "1.000000", come out as "0.5" and "1.0"
C18_HalfAndOnePointZero ==
    AfterFormatTicks /\ op.val.level = 5 =>
        /\ CleanedUp
        /\ HalfAndWholeSecond =>
              /\ op.val.raw = <<<<"0", ".", "5", "0", "0", "0", "0", "0">>,
                                <<"1", ".", "0", "0", "0", "0", "0", "0">>>>
              /\ op.val.labels = <<<<"0", ".", "5">>, <<"1", ".", "0">>>>

\* 0.5 s and 1.0 s were formatted and five zeros were cut from both labels
C18_Witness ==
    AfterFormatTicks /\ op.val.level = 5 /\ HalfAndWholeSecond /\ CommonZeros = 5

\* the offset format of the active level applied to tick nn of the call
OffsetFrom(nn) ==
    _format_string(formatter, op.val.tickvalue[nn],
                   _get_formats(formatter, formatter.offset_formats)[op.val.level + 1])

\* years or months are the active level and a tick has the value 1 there
\* (year 1, January)
OffsetSuppressed ==
    op.val.level < 2 /\ \E nn \in DOMAIN op.val.ticktuple :
                            op.val.ticktuple[nn][op.val.level + 1] = 1

\* C19 as stated: after format_ticks get_offset() is the offset format of the
\* active level applied to the last tick when show_offset is on and empty
\* when it is off, whatever the other ticks and the calls before
C19_OffsetOfLastTick ==
    AfterFormatTicks =>
        get_offset(formatter) = IF formatter.show_offset THEN OffsetFrom(Len(op.val.tickvalue))
                                ELSE <<>>

\* C19 amended: after format_ticks get_offset() is the offset format of the
\* active level applied to the last tick when show_offset is on, and empty
\* when it is off or when years or months are the active level and some tick
\* has the value 1 there; but for this it depends on no other tick and on no
\* call before
C19_OffsetOfLastTickUnlessSuppressed ==
    AfterFormatTicks =>
        get_offset(formatter) = IF formatter.show_offset /\ ~OffsetSuppressed
                                THEN OffsetFrom(Len(op.val.tickvalue))
                                ELSE <<>>

\* an offset shown that the first tick of the call would not give, after
\* another call
C19_Witness ==
    /\ AfterFormatTicks /\ formatter.show_offset /\ ~OffsetSuppressed
    /\ get_offset(formatter) # OffsetFrom(1)
    /\ prev # None /\ prev.kind = "ok" /\ prev.val.offset_string # get_offset(formatter)

\* the last two calls are format_ticks calls of one formatter, with one tick
\* list
FormattedTwice ==
    op.name = "format_ticks" /\ prev # None /\ prev.name = "format_ticks" /\ prev.arg = op.arg

\* C20: format_ticks called twice in a row with one tick list on one concise
\* formatter ends the same way both times, with the same labels and the same
\* offset string left behind, whatever was formatted before
C20_FormatTicksIdempotent ==
    FormattedTwice =>
        /\ op.kind = prev.kind
        /\ op.kind = "ok" =>
              /\ op.val.labels = prev.val.labels
              /\ get_offset(formatter) = prev.val.offset_string

\* several ticks were formatted twice, with an offset
C20_Witness ==
    /\ FormattedTwice /\ op.kind = "ok" /\ Len(op.arg) > 1
    /\ get_offset(formatter) # <<>>

(***************************************************************************)
(* The constructors of the concise formatters (SpecConstruct).             *)
(***************************************************************************)
\* the number of formats a concise formatter of the kind takes
RequiredLength(kind) == IF kind = "ConciseDateFormatter" THEN 6 ELSE 4

\* the last call built a formatter with a list that has not the required
\* length
WrongLengthGiven ==
    /\ op.name = "__init__"
    /\ \E i \in 2..4 : op.arg[i] # None /\ Len(op.arg[i].list) # RequiredLength(op.arg[1])

\* C21: a concise formatter built with a formats, zero_formats or
\* offset_formats list that has not the required length (6 for dates, 4 for
\* timedeltas), the empty list included, raises ValueError
C21_WrongLengthRaises ==
    WrongLengthGiven => op.kind = "ValueError"

(***************************************************************************)
(* strftimedelta (SpecStrftimedelta).                                      *)
(***************************************************************************)
\* a strftimedelta call, its timedelta and its format
AfterStrftimedelta == op.name = "strftimedelta"

\* the whole seconds of the timedelta of the call, which is not below zero
WholeSeconds == op.arg[1].day * SEC_PER_DAY + op.arg[1].sec

\* what a code of the total values and of the parts renders by C22
Rendered(code) ==
    CASE code = "%>H" -> str(WholeSeconds \div 3600)
      [] code = "%>M" -> str(WholeSeconds \div 60)
      [] code = "%>S" -> str(WholeSeconds)
      [] code = "%d" -> str(op.arg[1].day)
      [] code = "%H" -> zfill(op.arg[1].sec \div 3600, 2)
      [] code = "%M" -> zfill((op.arg[1].sec \div 60) % 60, 2)
      [] code = "%S" -> zfill(op.arg[1].sec % 60, 2)
      [] OTHER -> <<code>>

\* the format of the call has the codes of C22 only
TotalsAndParts ==
    \A i \in DOMAIN op.arg[2] : op.arg[2][i] \notin {"%f", "%-H", "%-M", "%-S"}

\* C22: for a timedelta that is not below zero %>H, %>M and %>S render the
\* whole hours, minutes and seconds of the total, and %d, %H, %M, %S the days
\* and the hours, minutes and seconds within the day; 1 day 12 hours with
\* "%>H:%M" gives "36:00"
C22_TotalsAndParts ==
    AfterStrftimedelta /\ op.arg[1].day >= 0 /\ TotalsAndParts =>
        /\ op.val = join([i \in DOMAIN op.arg[2] |-> Rendered(op.arg[2][i])])
        /\ op.arg = <<Stamp(1, 43200, 0), <<"%>H", ":", "%M">>>>
              => op.val = <<"3", "6", ":", "0", "0">>

\* C28: for a timedelta td above zero and every format, strftimedelta(-td)
\* is "-" followed by strftimedelta(td)
C28_SignSymmetric ==
    AfterStrftimedelta /\ op.arg[1].day < 0 =>
        op.val = <<"-">> \o strftimedelta(NegTimedelta(op.arg[1]), op.arg[2])

(***************************************************************************)
(* The converters (SpecConverter).                                         *)
(***************************************************************************)
\* an axisinfo call on a registered switching converter that returned
AfterSwitchedAxisinfo == op.name = "axisinfo" /\ IsSwitchable(op.arg)

\* C23: whatever changes of date.converter and axisinfo calls came before,
\* axisinfo of a registered switching converter returns a concise formatter
\* when the setting is "concise" at the call and the plain auto formatter
\* when it is "auto"
C23_FormatterFollowsSetting ==
    AfterSwitchedAxisinfo =>
        /\ op.kind = "ok"
        /\ op.val.majfmt.kind =
              IF op.arg.kind = "_SwitchableDateConverter"
              THEN (IF rcParams.converter = "concise" THEN "ConciseDateFormatter"
                    ELSE "AutoDateFormatter")
              ELSE (IF rcParams.converter = "concise" THEN "ConciseTimedeltaFormatter"
                    ELSE "AutoTimedeltaFormatter")

\* a concise formatter returned after the setting was changed to "concise"
C23_Witness ==
    /\ AfterSwitchedAxisinfo /\ rcParams.converter = "concise"
    /\ op.val.majfmt.kind = "ConciseDateFormatter"

InvalidIntervalGiven ==
    op.name \in IntervalLocators /\ (op.arg % 2 # 0 \/ op.arg < 2)

\* C24: the constructor of every locator class that takes an interval
\* raises an error for an interval that is not above 0 or not a whole number
C24_InvalidIntervalRaises ==
    InvalidIntervalGiven => op.kind # "ok"


(***************************************************************************)
(* AutoDateLocator: the unit after a tick-generation call (SpecLocator).   *)
(***************************************************************************)
\* C25: after a tick_values call of the auto locator, for any view, also one
\* too short for any frequency to reach minticks, _get_unit() of the auto
\* locator is the unit of the frequency of the locator that generated the
\* ticks
C25_UnitOfGeneratingLocator ==
    AfterTickValues => _get_unit(Self) = _get_unit(op.val.locator)

(***************************************************************************)
(* AutoDateLocator: the restriction handed to the rule (SpecIntervald).    *)
(***************************************************************************)
\* the last tick_values call selected a frequency that has a range, with
\* interval multiples enabled
SelectedWithMultiples ==
    /\ AfterTickValues
    /\ op.val.selected
    /\ loc.interval_multiples
    /\ op.val._freq \in {MONTHLY, DAILY, HOURLY, MINUTELY, SECONDLY}

\* the values the unit of a frequency runs over
RangeOfFrequency(freq) ==
    CASE freq = MONTHLY -> range(1, 13)
      [] freq = DAILY   -> range(1, 32)
      [] freq = HOURLY  -> range(0, 24)
      [] OTHER          -> range(0, 60)

\* the restriction of the rule for a frequency
RestrictionOf(rule, freq) ==
    CASE freq = MONTHLY  -> rule.bymonth
      [] freq = DAILY    -> rule.bymonthday
      [] freq = HOURLY   -> rule.byhour
      [] freq = MINUTELY -> rule.byminute
      [] OTHER           -> rule.bysecond

\* C26: with interval multiples enabled the restriction handed to the rule
\* is the stride of the range of the selected frequency by the chosen
\* interval, and the interval of the rule is 1; for the Daily frequency only,
\* interval 14 gives {1, 15} and interval 7 gives {1, 8, 15, 22}, whatever
\* lists intervald is configured with
C26_StrideUnlessDaily ==
    SelectedWithMultiples =>
        /\ op.val.locator.rule.interval = 1
        /\ RestrictionOf(op.val.locator.rule, op.val._freq) =
              IF op.val._freq = DAILY /\ op.val.interval = 14 THEN By(<<1, 15>>)
              ELSE IF op.val._freq = DAILY /\ op.val.interval = 7
              THEN By(<<1, 8, 15, 22>>)
              ELSE By(Slice(RangeOfFrequency(op.val._freq), op.val.interval))

(***************************************************************************)
(* AutoDateLocator: the order of the ticks (SpecLocator).                  *)
(***************************************************************************)
\* the ticks of the last tick_values call are in ascending order
Ascending ==
    \A k \in 1..(Len(op.val.ticks) - 1) :
        FCmp(op.val.ticks[k], op.val.ticks[k + 1]) <= 0

\* the ticks tick_values returns for the bounds of the last call exchanged
SwappedTicks ==
    TickValuesOf(get_locator(loc, op.arg[2], op.arg[1]),
                 op.arg[2], op.arg[1], _epoch).ticks

\* C27: tick_values(vmin, vmax) of the auto locator returns its ticks in
\* ascending order, also for vmin > vmax, and the same ticks as
\* tick_values(vmax, vmin)
C27_AscendingAndSymmetric ==
    AfterTickValues => Ascending /\ op.val.ticks = SwappedTicks

(***************************************************************************)
(* AutoTimedeltaLocator.update_from_limits (SpecTimedelta).                *)
(***************************************************************************)
AfterUpdateFromLimits == op.name = "update_from_limits"

\* |dmax - dmin| of the last call
Span ==
    IF Earlier(op.arg[3], op.arg[2])
    THEN ShiftStamp(Stamp(op.arg[2].day - op.arg[3].day, op.arg[2].sec, op.arg[2].us),
                    -op.arg[3].sec, -op.arg[3].us)
    ELSE ShiftStamp(Stamp(op.arg[3].day - op.arg[2].day, op.arg[3].sec, op.arg[3].us),
                    -op.arg[2].sec, -op.arg[2].us)

\* the whole days, hours, minutes, seconds and microseconds in the span
Elapsed ==
    <<SFromInt(Span.day),
      SFromInt(Span.day * 24 + Span.sec \div 3600),
      SFromInt(Span.day * 1440 + Span.sec \div 60),
      SecondsOf(Span),
      MicrosOf(Span)>>

\* the frequencies with at least minticks whole units in the span
EnoughElapsed == {i \in 1..5 : SCmp(Elapsed[i], SFromInt(op.arg[1])) >= 0}

\* the intervals k of the i-th frequency with count <= k * (maxticks - 1)
FittingElapsed(i) ==
    {k \in DOMAIN op.val.intervald[i] :
        SCmp(Elapsed[i], SFromInt(op.val.intervald[i][k] * (op.val.maxticks[i] - 1))) <= 0}

\* C30: the counts update_from_limits takes are the whole days, hours,
\* minutes, seconds and microseconds in |dmax - dmin|, days not counted
\* twice; the frequency it selects is the coarsest with at least minticks
\* whole units and the interval the first of its list with
\* count <= k * (maxticks[freq] - 1)
C30_CountsAreElapsed ==
    AfterUpdateFromLimits =>
        /\ op.val.nums = Elapsed
        /\ \A i \in EnoughElapsed :
              (\A j \in EnoughElapsed : i <= j) =>
                  /\ op.val._freq = op.val._freqs[i]
                  /\ \A k \in FittingElapsed(i) :
                        (\A n \in FittingElapsed(i) : k <= n) =>
                            op.val._interval = op.val.intervald[i][k]

=============================================================================
